---- MODULE Spec2Model ----
(***************************************************************************)
(* Model of nanobot-rs.                                                    *)
(*                                                                         *)
(* Part 1: the cron service (cron/service.rs, cron/types.rs) and the JSON  *)
(* store file it persists to.  A CronService instance is one process (or   *)
(* one value) holding an in-memory CronStore; several instances may be     *)
(* constructed over the same store path (the gateway and the `cron ...`    *)
(* CLI commands of main.rs each construct their own).                      *)
(*                                                                         *)
(* Part 2: the tool registry (agent/tools/registry.rs).                    *)
(*                                                                         *)
(* Part 3: the tools (agent/tools/filesystem.rs, shell.rs, web.rs,         *)
(* message.rs, spawn.rs): what each execute returns.                       *)
(*                                                                         *)
(* Part 4: the OpenAI-compatible provider (providers/openai_compat.rs,     *)
(* providers/base.rs): what chat returns for each outcome of the HTTP      *)
(* exchange.                                                               *)
(*                                                                         *)
(* Part 5: the agent loop's process_direct, as the design document         *)
(* describes it, over the provider, the registry and the message helpers   *)
(* (agent/context.rs).                                                     *)
(*                                                                         *)
(* Part 6: the WhatsApp channel (channels/whatsapp.rs): start, stop, send, *)
(* the connection task with its reconnect cycle, the writer task of each   *)
(* connection, and the handling of the bridge's frames.                    *)
(*                                                                         *)
(* Part 7: the memory store's daily notes (agent/memory.rs): append_today  *)
(* and read_today over today's file.                                       *)
(*                                                                         *)
(* Part 8: the message and spawn tools as shared objects (agent/tools/     *)
(* message.rs, spawn.rs): set_context, set_send_callback / set_callback    *)
(* and execute called from several tasks, and from inside the callback,    *)
(* one mutex acquisition at a time.                                        *)
(***************************************************************************)
EXTENDS Integers, Sequences, FiniteSets, TLC

\* ------------------------------------------------------------------ bounds
\* Most add_job calls made on one instance in one run.
MaxAdds == 1
\* Last value of the millisecond clock.
MaxNow == 1
\* Most file-system failures (a failed create or a failed write) in one run.
MaxFails == 1
\* max_tool_iterations of the configuration in force.
MaxToolIterations == 2
\* process_direct invocations.
MaxTurns == 1
\* Most inputs to the WhatsApp adapter in one run: start and send calls,
\* results of connect_async, frames read.
MaxWaInputs == 4
\* Most append_today calls in one run.
MaxAppends == 3
\* Most calls on the message and spawn tools in one run, nested ones included.
MaxToolCalls == 3

\* ----------------------------------------------------------------- options
\* Option<T>: None is the empty sequence, Some(v) the one-element sequence.
None == <<>>
Some(v) == <<v>>

\* ------------------------------------------------------------- cron types
\* CronSchedule::default()
DefaultSchedule ==
  [kind |-> "every", at_ms |-> None, every_ms |-> None, expr |-> None, tz |-> None]

\* CronPayload::default()
DefaultPayload ==
  [kind |-> "agent_turn", message |-> "", deliver |-> FALSE,
   channel |-> None, to |-> None]

\* CronJobState::default()
DefaultState ==
  [next_run_at_ms |-> None, last_run_at_ms |-> None,
   last_status |-> None, last_error |-> None]

\* CronStore::default()
DefaultStore == [version |-> 1, jobs |-> <<>>]

\* --------------------------------------------------- serde: serialization
\* A JSON object is a function from the keys that are present to their
\* values.  Field names are camelCase; a field marked skip_serializing_if =
\* "Option::is_none" is left out when it is None.
OptKey(k, opt) == IF opt # None THEN {k} ELSE {}

ToJsonSchedule(s) ==
  LET keys == {"kind"} \cup OptKey("atMs", s.at_ms) \cup OptKey("everyMs", s.every_ms)
                       \cup OptKey("expr", s.expr) \cup OptKey("tz", s.tz)
  IN [k \in keys |->
        CASE k = "kind" -> s.kind
          [] k = "atMs" -> s.at_ms[1]
          [] k = "everyMs" -> s.every_ms[1]
          [] k = "expr" -> s.expr[1]
          [] k = "tz" -> s.tz[1]]

ToJsonPayload(p) ==
  LET keys == {"kind", "message", "deliver"} \cup OptKey("channel", p.channel)
                                             \cup OptKey("to", p.to)
  IN [k \in keys |->
        CASE k = "kind" -> p.kind
          [] k = "message" -> p.message
          [] k = "deliver" -> p.deliver
          [] k = "channel" -> p.channel[1]
          [] k = "to" -> p.to[1]]

ToJsonState(st) ==
  LET keys == OptKey("nextRunAtMs", st.next_run_at_ms)
              \cup OptKey("lastRunAtMs", st.last_run_at_ms)
              \cup OptKey("lastStatus", st.last_status)
              \cup OptKey("lastError", st.last_error)
  IN [k \in keys |->
        CASE k = "nextRunAtMs" -> st.next_run_at_ms[1]
          [] k = "lastRunAtMs" -> st.last_run_at_ms[1]
          [] k = "lastStatus" -> st.last_status[1]
          [] k = "lastError" -> st.last_error[1]]

ToJsonJob(j) ==
  [id |-> j.id, name |-> j.name, enabled |-> j.enabled,
   schedule |-> ToJsonSchedule(j.schedule),
   payload |-> ToJsonPayload(j.payload),
   state |-> ToJsonState(j.state),
   createdAtMs |-> j.created_at_ms, updatedAtMs |-> j.updated_at_ms,
   deleteAfterRun |-> j.delete_after_run]

\* ToJsonStore writing list_jobs(false) instead of the whole store.
ToJsonStoreEnabledOnly(s) ==
  LET on == SelectSeq(s.jobs, LAMBDA j : j.enabled)
  IN [version |-> s.version, jobs |-> [k \in 1..Len(on) |-> ToJsonJob(on[k])]]

ToJsonStore(s) ==
  [version |-> s.version,
   jobs |-> [k \in 1..Len(s.jobs) |-> ToJsonJob(s.jobs[k])]]

\* ------------------------------------------------- serde: deserialization
\* A missing Option field is None; a field with #[serde(default)] takes its
\* default; a missing field without a default fails the whole parse.
OptField(o, k) == IF k \in DOMAIN o THEN Some(o[k]) ELSE None
FieldOr(o, k, d) == IF k \in DOMAIN o THEN o[k] ELSE d

ValidScheduleJson(o) == "kind" \in DOMAIN o

FromJsonSchedule(o) ==
  [kind |-> o["kind"], at_ms |-> OptField(o, "atMs"),
   every_ms |-> OptField(o, "everyMs"), expr |-> OptField(o, "expr"),
   tz |-> OptField(o, "tz")]

FromJsonPayload(o) ==
  [kind |-> FieldOr(o, "kind", "agent_turn"),
   message |-> FieldOr(o, "message", ""),
   deliver |-> FieldOr(o, "deliver", FALSE),
   channel |-> OptField(o, "channel"), to |-> OptField(o, "to")]

FromJsonState(o) ==
  [next_run_at_ms |-> OptField(o, "nextRunAtMs"),
   last_run_at_ms |-> OptField(o, "lastRunAtMs"),
   last_status |-> OptField(o, "lastStatus"),
   last_error |-> OptField(o, "lastError")]

ValidJobJson(o) ==
  /\ "id" \in DOMAIN o
  /\ "name" \in DOMAIN o
  /\ "schedule" \in DOMAIN o => ValidScheduleJson(o["schedule"])

\* FromJsonJob without rename_all = "camelCase" on CronJob: the three
\* two-word fields are looked up under their Rust names.
FromJsonJobSnakeCase(o) ==
  [id |-> o["id"], name |-> o["name"],
   enabled |-> FieldOr(o, "enabled", TRUE),
   schedule |-> IF "schedule" \in DOMAIN o
                  THEN FromJsonSchedule(o["schedule"]) ELSE DefaultSchedule,
   payload |-> IF "payload" \in DOMAIN o
                 THEN FromJsonPayload(o["payload"]) ELSE DefaultPayload,
   state |-> IF "state" \in DOMAIN o
               THEN FromJsonState(o["state"]) ELSE DefaultState,
   created_at_ms |-> FieldOr(o, "created_at_ms", 0),
   updated_at_ms |-> FieldOr(o, "updated_at_ms", 0),
   delete_after_run |-> FieldOr(o, "delete_after_run", FALSE)]

FromJsonJob(o) ==
  [id |-> o["id"], name |-> o["name"],
   enabled |-> FieldOr(o, "enabled", TRUE),
   schedule |-> IF "schedule" \in DOMAIN o
                  THEN FromJsonSchedule(o["schedule"]) ELSE DefaultSchedule,
   payload |-> IF "payload" \in DOMAIN o
                 THEN FromJsonPayload(o["payload"]) ELSE DefaultPayload,
   state |-> IF "state" \in DOMAIN o
               THEN FromJsonState(o["state"]) ELSE DefaultState,
   created_at_ms |-> FieldOr(o, "createdAtMs", 0),
   updated_at_ms |-> FieldOr(o, "updatedAtMs", 0),
   delete_after_run |-> FieldOr(o, "deleteAfterRun", FALSE)]

ValidStoreJson(d) ==
  "jobs" \in DOMAIN d => \A k \in 1..Len(d["jobs"]) : ValidJobJson(d["jobs"][k])

FromJsonStore(d) ==
  [version |-> FieldOr(d, "version", 1),
   jobs |-> IF "jobs" \in DOMAIN d
              THEN [k \in 1..Len(d["jobs"]) |-> FromJsonJob(d["jobs"][k])]
              ELSE <<>>]

\* ---------------------------------------------------------- the store file
\* The content at the store path: absent, text that is not a JSON document
\* (empty, a strict prefix of a document, anything else), or a document.
FileAbsent == [st |-> "absent"]
FileJson(d) == [st |-> "json", doc |-> d]

\* CronService::new: the store read from the path, the default store when the
\* file is missing, unreadable or does not parse.
LoadStore(f) ==
  IF f.st = "json" /\ ValidStoreJson(f.doc) THEN FromJsonStore(f.doc) ELSE DefaultStore

\* The file just created or truncated (length 0), and a file holding bytes
\* that are not a document (a strict prefix of one, or two writes overlaid).
FileEmpty == [st |-> "garbage", empty |-> TRUE]
FilePartial == [st |-> "garbage", empty |-> FALSE]

\* ------------------------------------------------------------------ state
VARIABLES
  file,     \* content at the store path
  store,    \* store[i]: the CronStore of instance i (CronService.store)
  running,  \* running[i]: CronService.running
  pc,       \* pc[i]: "none" (not constructed), "idle", "writing" (in std::fs::write)
  now,      \* the clock read by now_ms()
  inbound,  \* the agent loop's inbound stream (main.rs inbound_tx/inbound_rx)
  last,     \* last[i]: the last call made on instance i and what it returned
  fails,    \* file-system failures so far
  added,    \* added[i]: add_job calls made on instance i so far
  tools,    \* ToolRegistry.tools: the entries of the HashMap
  regLast,  \* the last call made on the registry and what it returned
  toolLast, \* the last call of a tool's execute and what it did
  provLast, \* the last call of the provider's chat and what it returned
  history,  \* history[s]: the agent loop's message history of session s
  turn,     \* the process_direct invocation in flight, or the last one
  turns,    \* process_direct invocations so far
  waConfig, \* WhatsAppChannel.config, None before new
  waRunning, \* WhatsAppChannel.running
  wsTx,     \* WhatsAppChannel.ws_tx: None or Some(c), the sender of connection c's queue
  tasks,    \* tasks[t]: the connection task spawned by the t-th start
  conns,    \* conns[c]: the writer queue, writer task and socket of connection c
  waLast,   \* the last call on the adapter or socket event, and what it returned
  waUsed,   \* start and send calls, connect results and frames so far
  memFile,  \* today's memory file: None while it does not exist, else Some(content)
  memLog,   \* the append_today calls made today, in call order: the content,
            \* and whether its fs::write succeeded
  memLast,  \* the last call on the memory store and what it returned
  mtFields, \* mtFields[k]: the callback and the context (channel, chat_id) of tool k
  mtLocks,  \* mtLocks[k][f]: the task holding the mutex of field f of tool k, 0 if free
  mtStack,  \* mtStack[t]: the calls task t is in, innermost last
  mtInstalled, \* mtInstalled[k]: the contexts the constructor and set_context were given
  mtLast,   \* the last call that returned and what it returned
  mtCalls   \* calls made so far

cronVars == <<file, store, running, pc, now, inbound, last, fails, added>>
regVars == <<tools, regLast>>
agentVars == <<history, turn, turns>>
waVars == <<waConfig, waRunning, wsTx, tasks, conns, waLast, waUsed>>
memVars == <<memFile, memLog, memLast>>
mtVars == <<mtFields, mtLocks, mtStack, mtInstalled, mtLast, mtCalls>>
\* What no cron operation, no registry operation, no turn, no call on the
\* shared message and spawn tools touches; what the WhatsApp adapter does
\* not touch (it pushes to inbound).
nonCronVars == <<regVars, toolLast, provLast, agentVars, waVars, memVars, mtVars>>
nonRegVars == <<cronVars, toolLast, provLast, agentVars, waVars, memVars, mtVars>>
nonAgentVars == <<cronVars, regVars, toolLast, provLast, waVars, memVars, mtVars>>
nonWaVars == <<file, store, running, pc, now, last, fails, added,
               regVars, toolLast, provLast, agentVars, memVars, mtVars>>
nonMtVars == <<cronVars, regVars, toolLast, provLast, agentVars, waVars, memVars>>
vars == <<cronVars, regVars, toolLast, provLast, agentVars, waVars, memVars, mtVars>>

\* The instances that may exist over one store path (two processes).
Insts == {1, 2}

\* The session ids process_direct is called with.
Sessions == {"s1", "s2"}

\* ----------------------------------------------------------------- inputs
\* The ids remove_job and enable_job are called with.
Ids == {"a1b2c3d4", "deadbeef"}

\* The add_job calls made: the arguments (the three schedule kinds, with and
\* without deliver, channel, to and delete_after_run) and the id the call
\* draws.  Two of the calls draw the same id.
AddInputs ==
  { [id |-> "a1b2c3d4", name |-> "tick", message |-> "tick", deliver |-> TRUE,
     channel |-> Some("telegram"), to |-> Some("42"), delete_after_run |-> FALSE,
     schedule |-> [kind |-> "every", at_ms |-> None, every_ms |-> Some(1000),
                   expr |-> None, tz |-> None]],
    [id |-> "deadbeef", name |-> "daily", message |-> "report", deliver |-> FALSE,
     channel |-> None, to |-> None, delete_after_run |-> FALSE,
     schedule |-> [kind |-> "cron", at_ms |-> None, every_ms |-> None,
                   expr |-> Some("0 9 * * *"), tz |-> None]],
    [id |-> "a1b2c3d4", name |-> "once", message |-> "remind", deliver |-> TRUE,
     channel |-> Some("whatsapp"), to |-> None, delete_after_run |-> TRUE,
     schedule |-> [kind |-> "at", at_ms |-> Some(1), every_ms |-> None,
                   expr |-> None, tz |-> Some("UTC")]] }

\* A store file written by another implementation of the same format: one
\* job without the optional fields, due at time 0, to be deleted after its run.
ForeignDoc ==
  [version |-> 2,
   jobs |-> << [id |-> "a1b2c3d4", name |-> "legacy",
                schedule |-> [kind |-> "every", everyMs |-> 1000],
                payload |-> [message |-> "hello"],
                state |-> [nextRunAtMs |-> 0],
                deleteAfterRun |-> TRUE] >>]

\* A store file this program wrote in an earlier run: three jobs.
FullDoc ==
  [version |-> 1,
   jobs |-> << [id |-> "a1b2c3d4", name |-> "one", enabled |-> TRUE,
                schedule |-> [kind |-> "every", everyMs |-> 1000],
                payload |-> [kind |-> "agent_turn", message |-> "one",
                             deliver |-> FALSE],
                state |-> << >>, createdAtMs |-> 0, updatedAtMs |-> 0,
                deleteAfterRun |-> FALSE],
               [id |-> "deadbeef", name |-> "two", enabled |-> FALSE,
                schedule |-> [kind |-> "cron", expr |-> "0 9 * * *"],
                payload |-> [kind |-> "agent_turn", message |-> "two",
                             deliver |-> FALSE],
                state |-> << >>, createdAtMs |-> 0, updatedAtMs |-> 0,
                deleteAfterRun |-> FALSE],
               [id |-> "0badf00d", name |-> "three", enabled |-> TRUE,
                schedule |-> [kind |-> "every", everyMs |-> 1000],
                payload |-> [kind |-> "agent_turn", message |-> "three",
                             deliver |-> FALSE],
                state |-> << >>, createdAtMs |-> 0, updatedAtMs |-> 0,
                deleteAfterRun |-> FALSE] >>]

\* A document whose job lacks the required "name".
BrokenDoc == [version |-> 1, jobs |-> << [id |-> "deadbeef"] >>]

InitFiles ==
  {FileAbsent, FilePartial, FileJson(ForeignDoc), FileJson(FullDoc), FileJson(BrokenDoc)}

\* last[i]: op, the last call; retJob and retBool, what it returned; wr, how
\* the last persist went ("none", "pending", "ok", "failed"); dirty, whether
\* a persist has failed since the last one that succeeded; saw and during,
\* what new read at the store path and whether another instance was inside
\* std::fs::write at that moment.
NoLast ==
  [op |-> "none", retJob |-> None, retBool |-> FALSE, wr |-> "none",
   dirty |-> FALSE, saw |-> "none", during |-> FALSE]

\* ToolRegistry::new
RegistryNew == {}

\* regLast: op, the last call on the registry; name, its argument; has, what
\* has(name) was before it; ret, the string execute returned; invoked, the
\* tool executions the call made, in order.
NoRegLast ==
  [op |-> "none", name |-> "", has |-> FALSE, ret |-> "", invoked |-> <<>>]

Init ==
  /\ tools = RegistryNew
  /\ regLast = NoRegLast
  /\ toolLast = [call |-> [tool |-> "none"], disk |-> "",
                 res |-> [panic |-> FALSE, s |-> "", branch |-> "none"]]
  /\ provLast = [h |-> [send |-> "none"], ret |-> [ok |-> TRUE]]
  /\ history = [s \in Sessions |-> <<>>]
  /\ turn = [active |-> FALSE, session |-> "", messages |-> <<>>, iter |-> 0,
             calls |-> 0, ret |-> None]
  /\ turns = 0
  /\ waConfig = None
  /\ waRunning = FALSE
  /\ wsTx = None
  /\ tasks = <<>>
  /\ conns = <<>>
  /\ waLast = [op |-> "none", prev |-> "none", arg |-> [kind |-> "none"], ret |-> "",
               flip |-> FALSE]
  /\ waUsed = 0
  /\ memFile = None
  /\ memLog = <<>>
  /\ memLast = [op |-> "none", ret |-> "", read_ok |-> TRUE]
  /\ mtFields = [k \in {"message", "spawn"} |->
                   [callback |-> FALSE, channel |-> "cli", chat_id |-> "direct"]]
  /\ mtLocks = [k \in {"message", "spawn"} |->
                  [callback |-> 0, channel |-> 0, chat_id |-> 0]]
  /\ mtStack = [t \in {1, 2} |-> <<>>]
  /\ mtInstalled = [k \in {"message", "spawn"} |-> {<<"cli", "direct">>}]
  /\ mtLast = [tool |-> "", op |-> "none", ret |-> "", channel |-> "", chat_id |-> "",
               defaults |-> FALSE, nested |-> 0]
  /\ mtCalls = 0
  /\ file \in InitFiles
  /\ store = [i \in Insts |-> DefaultStore]
  /\ running = [i \in Insts |-> FALSE]
  /\ pc = [i \in Insts |-> "none"]
  /\ now = 0
  /\ inbound = <<>>
  /\ last = [i \in Insts |-> NoLast]
  /\ fails = 0
  /\ added = [i \in Insts |-> 0]

\* ------------------------------------------------------------- operations
\* The record of a call on an instance: l is the previous record.
Called(l, op, retJob, retBool, wr) ==
  [op |-> op, retJob |-> retJob, retBool |-> retBool,
   wr |-> IF wr = "none" THEN l.wr ELSE wr,
   dirty |-> (wr = "failed") \/ l.dirty, saw |-> "none", during |-> FALSE]

\* CronService::new
New(i) ==
  /\ pc[i] \in {"none", "idle"}
  /\ store' = [store EXCEPT ![i] = LoadStore(file)]
  /\ running' = [running EXCEPT ![i] = FALSE]
  /\ pc' = [pc EXCEPT ![i] = "idle"]
  /\ last' = [last EXCEPT ![i] =
       [NoLast EXCEPT !.op = "new",
                      !.saw = IF file.st = "garbage"
                                THEN (IF file.empty THEN "empty" ELSE "partial")
                                ELSE file.st,
                      !.during = \E j \in Insts \ {i} : pc[j] = "writing"]]
  /\ UNCHANGED <<file, now, inbound, fails, added>> /\ UNCHANGED nonCronVars

\* CronService::start
Start(i) ==
  /\ pc[i] = "idle"
  /\ running' = [running EXCEPT ![i] = TRUE]
  /\ last' = [last EXCEPT ![i] = Called(@, "start", None, FALSE, "none")]
  /\ UNCHANGED <<file, store, pc, now, inbound, fails, added>> /\ UNCHANGED nonCronVars

\* CronService::stop
Stop(i) ==
  /\ pc[i] = "idle"
  /\ running' = [running EXCEPT ![i] = FALSE]
  /\ last' = [last EXCEPT ![i] = Called(@, "stop", None, FALSE, "none")]
  /\ UNCHANGED <<file, store, pc, now, inbound, fails, added>> /\ UNCHANGED nonCronVars

\* CronService::persist, up to the File::create inside std::fs::write: the
\* create fails and leaves the file alone, or it truncates the file and the
\* instance goes on to write the bytes.
PersistOpen(i, createOk) ==
  IF createOk
    THEN file' = FileEmpty /\ pc' = [pc EXCEPT ![i] = "writing"] /\ fails' = fails
    ELSE fails < MaxFails /\ file' = file /\ pc' = pc /\ fails' = fails + 1

\* The job add_job builds.
NewJob(inp, id, t) ==
  [id |-> id, name |-> inp.name, enabled |-> TRUE, schedule |-> inp.schedule,
   payload |-> [kind |-> "agent_turn", message |-> inp.message,
                deliver |-> inp.deliver, channel |-> inp.channel, to |-> inp.to],
   state |-> DefaultState, created_at_ms |-> t, updated_at_ms |-> t,
   delete_after_run |-> inp.delete_after_run]

\* add_job taking the job out of the store again when the create fails.
AddJobRollback(i, inp) ==
  /\ pc[i] = "idle"
  /\ added[i] < MaxAdds
  /\ added' = [added EXCEPT ![i] = @ + 1]
  /\ \E createOk \in BOOLEAN :
       /\ store' = IF createOk
                     THEN [store EXCEPT ![i].jobs = Append(@, NewJob(inp, inp.id, now))]
                     ELSE store
       /\ PersistOpen(i, createOk)
       /\ last' = [last EXCEPT ![i] =
            Called(@, "add_job", Some(NewJob(inp, inp.id, now)), FALSE,
                   IF createOk THEN "pending" ELSE "failed")]
  /\ UNCHANGED <<running, now, inbound>> /\ UNCHANGED nonCronVars

\* CronService::add_job
AddJob(i, inp) ==
  /\ pc[i] = "idle"
  /\ added[i] < MaxAdds
  /\ added' = [added EXCEPT ![i] = @ + 1]
  /\ \E createOk \in BOOLEAN :
       /\ store' = [store EXCEPT ![i].jobs = Append(@, NewJob(inp, inp.id, now))]
       /\ PersistOpen(i, createOk)
       /\ last' = [last EXCEPT ![i] =
            Called(@, "add_job", Some(NewJob(inp, inp.id, now)), FALSE,
                   IF createOk THEN "pending" ELSE "failed")]
  /\ UNCHANGED <<running, now, inbound>> /\ UNCHANGED nonCronVars

\* CronService::list_jobs
ListJobs(s, include_disabled) ==
  IF include_disabled THEN s.jobs ELSE SelectSeq(s.jobs, LAMBDA j : j.enabled)

\* retain dropping only the first job of that id.
RetainFirst(jobs, job_id) ==
  IF \E k \in 1..Len(jobs) : jobs[k].id = job_id
    THEN LET k == CHOOSE k \in 1..Len(jobs) :
                    /\ jobs[k].id = job_id
                    /\ \A m \in 1..(k - 1) : jobs[m].id # job_id
         IN SubSeq(jobs, 1, k - 1) \o SubSeq(jobs, k + 1, Len(jobs))
    ELSE jobs

\* self.store.jobs.retain(|j| j.id != job_id)
Retain(jobs, job_id) == SelectSeq(jobs, LAMBDA j : j.id # job_id)

\* CronService::remove_job
RemoveJob(i, job_id) ==
  /\ pc[i] = "idle"
  /\ LET kept == Retain(store[i].jobs, job_id)
         removed == Len(kept) < Len(store[i].jobs)
     IN /\ store' = [store EXCEPT ![i].jobs = kept]
        /\ IF removed
             THEN \E createOk \in BOOLEAN :
                    /\ PersistOpen(i, createOk)
                    /\ last' = [last EXCEPT ![i] =
                         Called(@, "remove_job", None, TRUE,
                                IF createOk THEN "pending" ELSE "failed")]
             ELSE /\ UNCHANGED <<file, pc, fails>>
                  /\ last' = [last EXCEPT ![i] =
                       Called(@, "remove_job", None, FALSE, "none")]
  /\ UNCHANGED <<running, now, inbound, added>> /\ UNCHANGED nonCronVars

\* self.store.jobs.iter_mut().find(|j| j.id == job_id): the index of the
\* first job with that id, 0 when there is none.
FindJob(jobs, job_id) ==
  IF \E k \in 1..Len(jobs) : jobs[k].id = job_id
    THEN CHOOSE k \in 1..Len(jobs) :
           /\ jobs[k].id = job_id
           /\ \A m \in 1..(k - 1) : jobs[m].id # job_id
    ELSE 0

\* enable_job setting the flag of every job of that id (filter for find).
EnableJobAll(i, job_id, enabled) ==
  /\ pc[i] = "idle"
  /\ LET k == FindJob(store[i].jobs, job_id)
     IN IF k = 0
          THEN /\ UNCHANGED <<file, store, pc, fails>>
               /\ last' = [last EXCEPT ![i] =
                    Called(@, "enable_job", None, FALSE, "none")]
          ELSE LET job == [store[i].jobs[k] EXCEPT !.enabled = enabled,
                                                   !.updated_at_ms = now]
               IN \E createOk \in BOOLEAN :
                    /\ store' = [store EXCEPT ![i].jobs =
                         [m \in 1..Len(@) |->
                            IF @[m].id = job_id
                              THEN [@[m] EXCEPT !.enabled = enabled,
                                                !.updated_at_ms = now]
                              ELSE @[m]]]
                    /\ PersistOpen(i, createOk)
                    /\ last' = [last EXCEPT ![i] =
                         Called(@, "enable_job", Some(job), FALSE,
                                IF createOk THEN "pending" ELSE "failed")]
  /\ UNCHANGED <<running, now, inbound, added>> /\ UNCHANGED nonCronVars

\* CronService::enable_job
EnableJob(i, job_id, enabled) ==
  /\ pc[i] = "idle"
  /\ LET k == FindJob(store[i].jobs, job_id)
     IN IF k = 0
          THEN /\ UNCHANGED <<file, store, pc, fails>>
               /\ last' = [last EXCEPT ![i] =
                    Called(@, "enable_job", None, FALSE, "none")]
          ELSE LET job == [store[i].jobs[k] EXCEPT !.enabled = enabled,
                                                   !.updated_at_ms = now]
               IN \E createOk \in BOOLEAN :
                    /\ store' = [store EXCEPT ![i].jobs[k] = job]
                    /\ PersistOpen(i, createOk)
                    /\ last' = [last EXCEPT ![i] =
                         Called(@, "enable_job", Some(job), FALSE,
                                IF createOk THEN "pending" ELSE "failed")]
  /\ UNCHANGED <<running, now, inbound, added>> /\ UNCHANGED nonCronVars

\* CronService::status
Status(i) == [enabled |-> running[i], jobs |-> Len(store[i].jobs)]

\* The write_all inside std::fs::write, after the create.  The bytes go to
\* offset 0 of whatever the file holds by now: onto an empty file they give
\* the document; onto bytes another instance wrote since the truncation they
\* give the document or, when the other content is longer, an overlay.  A
\* failed write leaves the file as it is or with a prefix written.
PersistWrite(i) ==
  /\ pc[i] = "writing"
  /\ LET mine == FileJson(ToJsonStore(store[i]))
         clean == file = FileEmpty \/ file = mine
     IN \E ok \in BOOLEAN :
          /\ ok \/ fails < MaxFails
          /\ fails' = IF ok THEN fails ELSE fails + 1
          /\ file' \in IF ok
                         THEN (IF clean THEN {mine} ELSE {mine, FilePartial})
                         ELSE {file, FilePartial}
          /\ last' = [last EXCEPT ![i].wr = IF ok THEN "ok" ELSE "failed",
                                  ![i].dirty = ~ok]
  /\ pc' = [pc EXCEPT ![i] = "idle"]
  /\ UNCHANGED <<store, running, now, inbound, added>> /\ UNCHANGED nonCronVars

\* Time passes.
Tick ==
  /\ now < MaxNow
  /\ now' = now + 1
  /\ UNCHANGED <<file, store, running, pc, inbound, last, fails, added>> /\ UNCHANGED nonCronVars

\* The calls a program makes on instance i.
Calls(i) ==
  \/ New(i)
  \/ \E inp \in AddInputs : AddJob(i, inp)
  \/ \E id \in Ids : RemoveJob(i, id)
  \/ \E id \in Ids, en \in BOOLEAN : EnableJob(i, id, en)
  \/ PersistWrite(i)

\* One CronService at a time over the store path: the store operations.
Next == Tick \/ Calls(1)

Spec == Init /\ [][Next]_vars

\* The gateway (main.rs cmd_gateway): one service, constructed, started and
\* handed to the agent loop, while time passes.  Nothing in the program sends
\* to the inbound stream on behalf of the cron service.
SchedNext ==
  \/ Tick
  \/ New(1)
  \/ Start(1)
  \/ Stop(1)
  \/ \E inp \in AddInputs : AddJob(1, inp)
  \/ \E id \in Ids, en \in BOOLEAN : EnableJob(1, id, en)
  \/ PersistWrite(1)

\* Time passes whatever the program does; no call is ever forced.
SchedSpec == Init /\ [][SchedNext]_vars /\ WF_vars(Tick)

\* Two processes over one store path, each constructing a service and adding
\* or removing jobs (main.rs cmd_cron_add, cmd_cron_remove, cmd_gateway).
ConcCalls(i) ==
  \/ New(i)
  \/ \E inp \in AddInputs : AddJob(i, inp)
  \/ \E id \in Ids : RemoveJob(i, id)
  \/ PersistWrite(i)

ConcNext == \E i \in Insts : ConcCalls(i)

ConcSpec == Init /\ [][ConcNext]_vars

\* ----------------------------------------------------------- tool registry
\* The tools offered to a registry: two implementations under each name.
ToolNames == {"read_file", "exec", "message", "spawn"}
ToolSet == [name : ToolNames, impl : {"first", "second"}]

\* An insert that adds the entry beside the one already under the key.
HashMapPush(m, k, v) == m \cup {[key |-> k, tool |-> v]}

\* HashMap::insert: the entry of that key, if any, is replaced.
HashMapInsert(m, k, v) == {e \in m : e.key # k} \cup {[key |-> k, tool |-> v]}

\* HashMap::remove
HashMapRemove(m, k) == {e \in m : e.key # k}

\* HashMap::contains_key
ContainsKey(m, k) == \E e \in m : e.key = k

\* ToolRegistry::has
Has(name) == ContainsKey(tools, name)

\* ToolRegistry::get: the tools registered under the name.
Get(m, name) == {e.tool : e \in {x \in m : x.key = name}}

\* ToolRegistry::register
Register(tool) ==
  /\ tools' = HashMapInsert(tools, tool.name, tool)
  /\ regLast' = [op |-> "register", name |-> tool.name, has |-> Has(tool.name),
                 ret |-> "", invoked |-> <<>>]
  /\ UNCHANGED nonRegVars

\* ToolRegistry::unregister
Unregister(name) ==
  /\ tools' = HashMapRemove(tools, name)
  /\ regLast' = [op |-> "unregister", name |-> name, has |-> Has(name),
                 ret |-> "", invoked |-> <<>>]
  /\ UNCHANGED nonRegVars

\* The parameter maps execute is called with.
ExecParams == {<<>>, [input |-> "hello"]}

\* What a registered tool's execute may return: any string, an error string
\* and the registry's own wording among them.
ToolOutputs == {"executed with: hello", "", "Error: boom", "Error: Tool 'exec' not found"}

\* The string execute returns for a name that is not registered.
ToolNotFound(name) == "Error: Tool '" \o name \o "' not found"

\* A dispatch that hands an unknown name to some registered tool.
DispatchAny(m, name, params, out) ==
  IF m = {}
    THEN [ret |-> ToolNotFound(name), invoked |-> <<>>]
    ELSE LET t == (CHOOSE e \in m : TRUE).tool
         IN  [ret |-> out, invoked |-> <<[tool |-> t, params |-> params, out |-> out]>>]

\* ToolRegistry::execute on the map m: out is what the tool found under the
\* name returns when it is awaited.
Dispatch(m, name, params, out) ==
  IF Get(m, name) = {}
    THEN [ret |-> ToolNotFound(name), invoked |-> <<>>]
    ELSE LET t == CHOOSE t \in Get(m, name) : TRUE
         IN  [ret |-> out, invoked |-> <<[tool |-> t, params |-> params, out |-> out]>>]

\* ToolRegistry::execute
Execute(name, params, out) ==
  /\ LET d == Dispatch(tools, name, params, out)
     IN  regLast' = [op |-> "execute", name |-> name, has |-> Has(name),
                     ret |-> d.ret, invoked |-> d.invoked]
  /\ UNCHANGED tools
  /\ UNCHANGED nonRegVars

RegNext ==
  \/ \E tool \in ToolSet : Register(tool)
  \/ \E name \in ToolNames : Unregister(name)
  \/ \E name \in ToolNames, params \in ExecParams, out \in ToolOutputs :
       Execute(name, params, out)

RegSpec == Init /\ [][RegNext]_vars

\* ------------------------------------------------------------------ tools
\* serde_json::Value as far as the tools look at it: a string or a number.
JStr(s) == [t |-> "str", v |-> s]
JNum(n) == [t |-> "num", v |-> ToString(n)]

\* params.get(k).and_then(|v| v.as_str())
ParamStr(params, k) ==
  IF k \in DOMAIN params /\ params[k].t = "str" THEN Some(params[k].v) ELSE None

\* What a tool's execute did: the string it returned (or panic, when it
\* unwound instead of returning) and the branch of execute that ended it.
Ret(s, branch) == [panic |-> FALSE, s |-> s, branch |-> branch]
Unwind(branch) == [panic |-> TRUE, s |-> "", branch |-> branch]

\* Every tool's first lines: the required string parameter k.
MissingParam(k) == Ret("Error: '" \o k \o "' parameter is required", "param")

\* The result of a file operation: Ok, or an io::Error with its kind and its
\* Display text.
IoOk == [kind |-> "Ok", text |-> ""]
IoErrors ==
  { [kind |-> "PermissionDenied", text |-> "Permission denied (os error 13)"],
    [kind |-> "Other", text |-> "Input/output error (os error 5)"] }

\* The match on the result of tokio::fs::write / read_dir: ok is the string
\* of the Ok arm, verb the wording of the other-error arm.
IoResult(io, path, ok, verb) ==
  IF io.kind = "Ok" THEN Ret(ok, "ok")
  ELSE IF io.kind = "PermissionDenied"
    THEN Ret("Error: Permission denied: " \o path, "io")
    ELSE Ret("Error " \o verb \o ": " \o io.text, "io")

\* ReadFileTool::execute
ReadFileExecute(params, env) ==
  LET path == ParamStr(params, "path") IN
  IF path = None THEN MissingParam("path")
  ELSE IF ~env.exists THEN Ret("Error: File not found: " \o path[1], "io")
  ELSE IF env.kind # "file" THEN Ret("Error: Not a file: " \o path[1], "io")
  ELSE IF env.read.kind = "Ok" THEN Ret(env.content, "ok")
  ELSE IF env.read.kind = "PermissionDenied"
    THEN Ret("Error: Permission denied: " \o path[1], "io")
    ELSE Ret("Error reading file: " \o env.read.text, "io")

\* WriteFileTool::execute
WriteFileExecute(params, env) ==
  LET path == ParamStr(params, "path")
      content == ParamStr(params, "content") IN
  IF path = None THEN MissingParam("path")
  ELSE IF content = None THEN MissingParam("content")
  ELSE IF env.mkdir.kind # "Ok"
    THEN Ret("Error creating directories: " \o env.mkdir.text, "io")
  ELSE IoResult(env.write, path[1],
                "Successfully wrote " \o ToString(Len(content[1])) \o " bytes to " \o path[1],
                "writing file")

\* str::matches(pat).count(): the matches of pat in s, left to right, not
\* overlapping; the empty pattern matches at every boundary.
RECURSIVE CountMatches(_, _)
CountMatches(s, pat) ==
  IF pat = "" THEN Len(s) + 1
  ELSE IF Len(s) < Len(pat) THEN 0
  ELSE IF SubSeq(s, 1, Len(pat)) = pat
    THEN 1 + CountMatches(SubSeq(s, Len(pat) + 1, Len(s)), pat)
    ELSE CountMatches(SubSeq(s, 2, Len(s)), pat)

\* str::replacen(old, new, 1)
RECURSIVE ReplaceFirst(_, _, _)
ReplaceFirst(s, old, new) ==
  IF Len(s) < Len(old) THEN s
  ELSE IF SubSeq(s, 1, Len(old)) = old
    THEN new \o SubSeq(s, Len(old) + 1, Len(s))
    ELSE SubSeq(s, 1, 1) \o ReplaceFirst(SubSeq(s, 2, Len(s)), old, new)

\* EditFileTool::execute
EditFileExecute(params, env) ==
  LET path == ParamStr(params, "path")
      old_text == ParamStr(params, "old_text")
      new_text == ParamStr(params, "new_text") IN
  IF path = None THEN MissingParam("path")
  ELSE IF old_text = None THEN MissingParam("old_text")
  ELSE IF new_text = None THEN MissingParam("new_text")
  ELSE IF ~env.exists THEN Ret("Error: File not found: " \o path[1], "io")
  ELSE IF env.read.kind # "Ok" THEN Ret("Error reading file: " \o env.read.text, "io")
  ELSE LET count == CountMatches(env.content, old_text[1]) IN
    IF count = 0
      THEN Ret("Error: old_text not found in file. Make sure it matches exactly.", "refusal")
    ELSE IF count > 1
      THEN Ret("Warning: old_text appears " \o ToString(count)
               \o " times. Please provide more context to make it unique.", "warning")
    ELSE IoResult(env.write, path[1], "Successfully edited " \o path[1], "writing file")

\* What the file at the path holds once execute has returned: new_content
\* where edit_file got as far as tokio::fs::write and the write succeeded,
\* the content parameter after a successful write_file, and otherwise what
\* it held before (a write that fails here fails to open the file).
FileAfter(tool, params, env) ==
  IF tool = "edit_file" /\ EditFileExecute(params, env).branch = "ok"
    THEN ReplaceFirst(env.content, ParamStr(params, "old_text")[1],
                      ParamStr(params, "new_text")[1])
  ELSE IF tool = "write_file" /\ WriteFileExecute(params, env).branch = "ok"
    THEN ParamStr(params, "content")[1]
  ELSE IF tool \in {"read_file", "write_file", "edit_file"} /\ env.exists
    THEN env.content
  ELSE ""

\* items.sort_by(name), the lines "[dir]  name" / "[file] name", joined by "\n".
RECURSIVE ListLines(_)
ListLines(items) ==
  IF items = {} THEN ""
  ELSE LET first == CHOOSE i \in items : \A j \in items : i.ord <= j.ord
           line == (IF first.is_dir THEN "[dir]  " ELSE "[file] ") \o first.name
       IN  IF items = {first} THEN line ELSE line \o "\n" \o ListLines(items \ {first})

\* ListDirTool::execute
ListDirExecute(params, env) ==
  LET path == ParamStr(params, "path") IN
  IF path = None THEN MissingParam("path")
  ELSE IF ~env.exists THEN Ret("Error: Directory not found: " \o path[1], "io")
  ELSE IF env.kind # "dir" THEN Ret("Error: Not a directory: " \o path[1], "io")
  ELSE IF env.read.kind # "Ok" THEN IoResult(env.read, path[1], "", "listing directory")
  ELSE IF env.next.kind # "Ok" THEN Ret("Error reading directory: " \o env.next.text, "io")
  ELSE IF env.items = {} THEN Ret("Directory " \o path[1] \o " is empty", "ok")
  ELSE Ret(ListLines(env.items), "ok")

\* ExecTool::guard_command.  The regular expressions are not computed: cmd
\* says which of them the command matches (deny, allow), whether it contains
\* "../" or "..\" (traversal) and, for each absolute path the two path
\* expressions find in it (paths), whether Path::canonicalize succeeds on it
\* (canon) and whether it lies outside the working directory (outside).
GuardCommand(tool, cmd) ==
  IF cmd.deny
    THEN Some("Error: Command blocked by safety guard (dangerous pattern detected)")
  ELSE IF tool.allow_patterns /\ ~cmd.allow
    THEN Some("Error: Command blocked by safety guard (not in allowlist)")
  ELSE IF tool.restrict_to_workspace /\ cmd.traversal
    THEN Some("Error: Command blocked by safety guard (path traversal detected)")
  ELSE IF tool.restrict_to_workspace /\ \E p \in cmd.paths : p.canon /\ p.outside
    THEN Some("Error: Command blocked by safety guard (path outside working dir)")
  ELSE None

\* The parts of a finished command's output, joined by "\n".
ExecOutput(out) ==
  LET a == IF out.stdout # "" THEN <<out.stdout>> ELSE <<>>
      b == IF out.stderr # "" THEN <<"STDERR:\n" \o out.stderr>> ELSE <<>>
      c == IF out.code # 0 THEN <<"\nExit code: " \o ToString(out.code)>> ELSE <<>>
      parts == a \o b \o c
  IN  IF parts = <<>> THEN "(no output)"
      ELSE IF Len(parts) = 1 THEN parts[1]
      ELSE IF Len(parts) = 2 THEN parts[1] \o "\n" \o parts[2]
      ELSE parts[1] \o "\n" \o parts[2] \o "\n" \o parts[3]

\* ExecTool::execute.  env.run is the timeout, the io::Error of the spawn (its
\* text in stderr) or the finished command's output; env.long says whether the string is longer
\* than max_len (by env.overflow bytes) and, if so, whether byte max_len is a
\* char boundary ("cut") or not ("split": String::truncate panics).
ExecExecute(params, env) ==
  LET command == ParamStr(params, "command") IN
  IF command = None THEN MissingParam("command")
  ELSE LET guard == GuardCommand(env.tool, env.cmd) IN
    IF guard # None THEN Ret(guard[1], "refusal")
    ELSE LET r == IF env.run.kind = "timeout"
                    THEN Ret("Error: Command timed out after "
                             \o ToString(env.tool.timeout) \o " seconds", "timeout")
                  ELSE IF env.run.kind = "err"
                    THEN Ret("Error executing command: " \o env.run.stderr, "io")
                  ELSE Ret(ExecOutput(env.run), "ok")
         IN  IF env.long = "no" THEN r
             ELSE IF env.long = "split" THEN Unwind(r.branch)
             ELSE Ret(r.s \o "\n... (truncated, " \o ToString(env.overflow)
                      \o " more chars)", r.branch)

\* Url::parse and validate_url on the URLs the model fetches.
ValidateUrl(url) ==
  CASE url = "https://example.com/a" -> None
    [] url = "ftp://example.com/a" -> Some("Only http/https allowed, got 'ftp'")
    [] OTHER -> Some("Invalid URL: relative URL without a base")

\* serde_json::json!({"error": e, "url": url}).to_string(): keys in order.
JsonError(e, url) == "{\"error\":\"" \o e \o "\",\"url\":\"" \o url \o "\"}"

\* WebFetchTool::execute.  env.send and env.body are "ok" or a reqwest error
\* text; env.text is the extracted text; env.long as for exec, for the slice
\* text[..max_chars].
WebFetchExecute(params, env) ==
  LET url == ParamStr(params, "url") IN
  IF url = None THEN Ret("{\"error\":\"url parameter is required\"}", "param")
  ELSE IF ValidateUrl(url[1]) # None
    THEN Ret(JsonError("URL validation failed: " \o ValidateUrl(url[1])[1], url[1]), "refusal")
  ELSE IF env.send # "ok" THEN Ret(JsonError(env.send, url[1]), "transport")
  ELSE IF env.body # "ok"
    THEN Ret(JsonError("Failed to read response body: " \o env.body, url[1]), "transport")
  ELSE IF env.long = "split" THEN Unwind("ok")
  ELSE Ret("{\"extractor\":\"" \o env.extractor \o "\",\"finalUrl\":\"" \o url[1]
           \o "\",\"length\":" \o ToString(Len(env.text))
           \o ",\"status\":" \o ToString(env.status)
           \o ",\"text\":\"" \o env.text
           \o "\",\"truncated\":" \o (IF env.long = "cut" THEN "true" ELSE "false")
           \o ",\"url\":\"" \o url[1] \o "\"}", "ok")

\* The lines of a result list, from item i on: "i. title\n   url" and the
\* description line when there is one.
RECURSIVE SearchLines(_, _)
SearchLines(results, i) ==
  IF i > Len(results) THEN ""
  ELSE "\n" \o ToString(i) \o ". " \o results[i].title \o "\n   " \o results[i].url
       \o (IF results[i].description # None
             THEN "\n   " \o results[i].description[1] ELSE "")
       \o SearchLines(results, i + 1)

\* WebSearchTool::execute.  env.send is "ok" or a reqwest error text,
\* env.status the HTTP status, env.json "ok" or a decode error text.
WebSearchExecute(params, env) ==
  LET query == ParamStr(params, "query") IN
  IF query = None THEN MissingParam("query")
  ELSE IF env.api_key = "" THEN Ret("Error: BRAVE_API_KEY not configured", "config")
  ELSE IF env.send # "ok" THEN Ret("Error: " \o env.send, "transport")
  ELSE IF env.status \notin 200..299
    THEN Ret("Error: Brave Search returned HTTP " \o ToString(env.status)
             \o ": " \o env.text, "transport")
  ELSE IF env.json # "ok"
    THEN Ret("Error parsing search results: " \o env.json, "transport")
  ELSE IF env.results = <<>> THEN Ret("No results for: " \o query[1], "ok")
  ELSE Ret("Results for: " \o query[1] \o "\n" \o SearchLines(env.results, 1), "ok")

\* params.get(k).and_then(as_str).filter(|s| !s.is_empty()).unwrap_or(default)
ParamOr(params, k, default) ==
  IF ParamStr(params, k) # None /\ ParamStr(params, k) # Some("")
    THEN ParamStr(params, k)[1] ELSE default

\* MessageTool::execute.  env.tool is the tool's state (the two defaults and
\* whether a callback is set), env.sent what the callback returned: "ok" or
\* the error's text.
MessageExecute(params, env) ==
  LET content == ParamStr(params, "content")
      channel == ParamOr(params, "channel", env.tool.default_channel)
      chat_id == ParamOr(params, "chat_id", env.tool.default_chat_id) IN
  IF content = None THEN MissingParam("content")
  ELSE IF channel = "" \/ chat_id = ""
    THEN Ret("Error: No target channel/chat specified", "config")
  ELSE IF ~env.tool.send_callback
    THEN Ret("Error: Message sending not configured", "config")
  ELSE IF env.sent = "ok" THEN Ret("Message sent to " \o channel \o ":" \o chat_id, "ok")
  ELSE Ret("Error sending message: " \o env.sent, "transport")

\* SpawnTool::execute.  env.spawned is the string the callback returns.
SpawnExecute(params, env) ==
  LET task == ParamStr(params, "task") IN
  IF task = None THEN MissingParam("task")
  ELSE IF ~env.tool.spawn_callback
    THEN Ret("Error: Spawn callback not configured", "config")
  ELSE Ret(env.spawned, "ok")

\* Tool::execute of the nine tools.
ToolExecute(tool, params, env) ==
  CASE tool = "read_file" -> ReadFileExecute(params, env)
    [] tool = "write_file" -> WriteFileExecute(params, env)
    [] tool = "edit_file" -> EditFileExecute(params, env)
    [] tool = "list_dir" -> ListDirExecute(params, env)
    [] tool = "exec" -> ExecExecute(params, env)
    [] tool = "web_search" -> WebSearchExecute(params, env)
    [] tool = "web_fetch" -> WebFetchExecute(params, env)
    [] tool = "message" -> MessageExecute(params, env)
    [] tool = "spawn" -> SpawnExecute(params, env)

\* ------------------------------------------------------------ tool inputs
\* The parameter maps a tool is called with: p is the tool's required
\* parameters, present as strings; one call lacks the parameter k, one
\* passes a number for it.
ParamCases(p, k) ==
  {p, [x \in DOMAIN p \ {k} |-> p[x]], [p EXCEPT ![k] = JNum(7)]}

FileEnvs ==
  LET FileBase ==
        [exists |-> TRUE, kind |-> "file", read |-> IoOk, write |-> IoOk, mkdir |-> IoOk,
         next |-> IoOk, content |-> "foo bar foo", items |-> {}]
      DirBase ==
        [FileBase EXCEPT !.kind = "dir",
           !.items = {[is_dir |-> FALSE, name |-> "b.txt", ord |-> 2],
                      [is_dir |-> TRUE, name |-> "a", ord |-> 1]}]
  IN  {FileBase, DirBase, [FileBase EXCEPT !.exists = FALSE], [DirBase EXCEPT !.items = {}],
       [FileBase EXCEPT !.content = "aaa"], [FileBase EXCEPT !.content = ""]}
      \cup {[FileBase EXCEPT !.read = e] : e \in IoErrors}
      \cup {[FileBase EXCEPT !.write = e] : e \in IoErrors}
      \cup {[FileBase EXCEPT !.mkdir = e] : e \in IoErrors}
      \cup {[DirBase EXCEPT !.read = e] : e \in IoErrors}
      \cup {[DirBase EXCEPT !.next = e] : e \in IoErrors}

ExecEnvs ==
  LET ExecBase ==
        [tool |-> [timeout |-> 60, allow_patterns |-> FALSE, restrict_to_workspace |-> FALSE],
         cmd |-> [deny |-> FALSE, allow |-> FALSE, traversal |-> FALSE, paths |-> {}],
         run |-> [kind |-> "done", stdout |-> "out", stderr |-> "", code |-> 0],
         long |-> "no", overflow |-> 0]
  IN  [tool : [timeout : {60}, allow_patterns : BOOLEAN, restrict_to_workspace : BOOLEAN],
       cmd : {[deny |-> FALSE, allow |-> TRUE, traversal |-> FALSE, paths |-> {}],
              [deny |-> TRUE, allow |-> TRUE, traversal |-> FALSE, paths |-> {}],
              [deny |-> FALSE, allow |-> FALSE, traversal |-> TRUE, paths |-> {}]}
             \cup [deny : {FALSE}, allow : {TRUE}, traversal : {FALSE},
                   paths : {{p} : p \in [canon : BOOLEAN, outside : BOOLEAN]}
                           \cup {[canon : BOOLEAN, outside : {TRUE}]}],
       run : {ExecBase.run}, long : {"no"}, overflow : {0}]
      \cup {[ExecBase EXCEPT !.run = r] :
              r \in {[kind |-> "timeout", stdout |-> "", stderr |-> "", code |-> 0],
                     [kind |-> "err", stdout |-> "", code |-> 0,
                      stderr |-> "No such file or directory (os error 2)"],
                     [kind |-> "done", stdout |-> "", stderr |-> "", code |-> 0],
                     [kind |-> "done", stdout |-> "out", stderr |-> "warn", code |-> 2]}}
      \cup {[ExecBase EXCEPT !.long = l, !.overflow = 3] : l \in {"cut", "split"}}

WebEnvs ==
  LET WebBase ==
        [api_key |-> "key", send |-> "ok", status |-> 200, body |-> "ok", json |-> "ok",
         text |-> "plain text", extractor |-> "raw", long |-> "no",
         results |-> <<[title |-> "T", url |-> "https://example.com/a",
                        description |-> Some("d")],
                       [title |-> "U", url |-> "https://example.com/b",
                        description |-> None]>>]
  IN  {WebBase, [WebBase EXCEPT !.api_key = ""], [WebBase EXCEPT !.status = 429],
       [WebBase EXCEPT !.send = "error sending request"],
       [WebBase EXCEPT !.body = "error decoding response body"],
       [WebBase EXCEPT !.json = "expected value"], [WebBase EXCEPT !.results = <<>>],
       [WebBase EXCEPT !.long = "cut"], [WebBase EXCEPT !.long = "split"]}

MessageEnvs ==
  LET MessageBase ==
        [tool |-> [default_channel |-> "cli", default_chat_id |-> "direct",
                   send_callback |-> TRUE, spawn_callback |-> TRUE],
         sent |-> "ok", spawned |-> "Subagent started"]
  IN  {MessageBase, [MessageBase EXCEPT !.sent = "WhatsApp bridge not connected"],
       [MessageBase EXCEPT !.spawned = "failed to start subagent"],
       [MessageBase EXCEPT !.tool.default_channel = ""],
       [MessageBase EXCEPT !.tool.default_chat_id = ""],
       [MessageBase EXCEPT !.tool.send_callback = FALSE],
       [MessageBase EXCEPT !.tool.spawn_callback = FALSE]}

\* The calls made: the tool, its parameters and what its environment does.
ToolCalls ==
  LET CallsOf(tool, p, k, envs) == [tool : {tool}, params : ParamCases(p, k), env : envs]
  IN  CallsOf("read_file", [path |-> JStr("notes.txt")], "path", FileEnvs)
      \cup CallsOf("write_file", [path |-> JStr("notes.txt"), content |-> JStr("hi")],
                 "content", FileEnvs)
      \cup CallsOf("edit_file", [path |-> JStr("notes.txt"), old_text |-> JStr("foo"),
                              new_text |-> JStr("baz")], "new_text", FileEnvs)
      \cup CallsOf("edit_file", [path |-> JStr("notes.txt"), old_text |-> JStr("bar"),
                              new_text |-> JStr("baz")], "old_text", FileEnvs)
      \cup CallsOf("edit_file", [path |-> JStr("notes.txt"), old_text |-> JStr("qux"),
                              new_text |-> JStr("baz")], "path", FileEnvs)
      \cup CallsOf("edit_file", [path |-> JStr("notes.txt"), old_text |-> JStr("aa"),
                              new_text |-> JStr("baz")], "path", FileEnvs)
      \cup CallsOf("edit_file", [path |-> JStr("notes.txt"), old_text |-> JStr(""),
                              new_text |-> JStr("baz")], "path", FileEnvs)
      \cup CallsOf("list_dir", [path |-> JStr("docs")], "path", FileEnvs)
      \cup CallsOf("exec", [command |-> JStr("ls")], "command", ExecEnvs)
      \cup CallsOf("web_search", [query |-> JStr("tla")], "query", WebEnvs)
      \cup CallsOf("web_fetch", [url |-> JStr("https://example.com/a")], "url", WebEnvs)
      \cup CallsOf("web_fetch", [url |-> JStr("ftp://example.com/a")], "url", WebEnvs)
      \cup CallsOf("web_fetch", [url |-> JStr("example")], "url", WebEnvs)
      \cup CallsOf("message", [content |-> JStr("hi"), channel |-> JStr("")], "content",
                 MessageEnvs)
      \cup CallsOf("message", [content |-> JStr("hi"), channel |-> JStr("telegram"),
                             chat_id |-> JStr("42")], "chat_id", MessageEnvs)
      \cup CallsOf("spawn", [task |-> JStr("dig")], "task", MessageEnvs)

\* One call of a tool's execute.
ToolCall(c) ==
  /\ toolLast' = [call |-> c, disk |-> FileAfter(c.tool, c.params, c.env),
                  res |-> ToolExecute(c.tool, c.params, c.env)]
  /\ UNCHANGED <<cronVars, regVars, provLast, agentVars, waVars, memVars, mtVars>>

ToolNext == \E c \in ToolCalls : ToolCall(c)

ToolSpec == Init /\ [][ToolNext]_vars

\* --------------------------------------------------------------- provider
\* serde_json::Value: the other kinds.
JArr(seq) == [t |-> "arr", a |-> seq]
JObj(map) == [t |-> "obj", o |-> map]
JNull == [t |-> "null"]

\* value.get(k) followed by as_str / as_array / as_object / as_i64 (kind
\* says which), or by nothing (kind "any": the value itself).
GetAs(j, k, kind) ==
  IF j.t = "obj" /\ k \in DOMAIN j.o /\ kind \in {"any", j.o[k].t}
    THEN Some(CASE kind = "any" -> j.o[k]
                [] kind = "arr" -> j.o[k].a
                [] kind = "obj" -> j.o[k].o
                [] kind = "bool" -> j.o[k].b
                [] OTHER -> j.o[k].v)
    ELSE None

\* Option::unwrap_or
UnwrapOr(opt, default) == IF opt = None THEN default ELSE opt[1]

\* serde_json::from_str::<HashMap<String, Value>> on the argument strings the
\* model's responses carry; None is a decode error.
ArgsFromStr(s) ==
  CASE s = "{}" -> Some(<<>>)
    [] s = "{\"text\":\"ping\"}" -> Some([text |-> JStr("ping")])
    [] OTHER -> None

\* parse_response: one element of message.tool_calls.
ParseToolCall(tc) ==
  LET function == UnwrapOr(GetAs(tc, "function", "any"), JNull)
      arguments_raw == UnwrapOr(GetAs(function, "arguments", "any"), JStr("{}"))
  IN  [id |-> UnwrapOr(GetAs(tc, "id", "str"), ""),
       name |-> UnwrapOr(GetAs(function, "name", "str"), ""),
       arguments |->
         IF arguments_raw.t = "str"
           THEN UnwrapOr(ArgsFromStr(arguments_raw.v), [raw |-> JStr(arguments_raw.v)])
         ELSE IF arguments_raw.t = "obj" THEN arguments_raw.o
         ELSE <<>>]

\* The LLMResponse every failure path builds.
ErrorResponse(text) ==
  [content |-> Some(text), tool_calls |-> <<>>, finish_reason |-> "error",
   usage |-> <<>>]

\* A parse_response that reports a missing first choice as an ordinary stop.
ParseResponseUnchecked(data) ==
  [content |-> None, tool_calls |-> <<>>, finish_reason |-> "stop", usage |-> <<>>]

\* parse_response
ParseResponse(data) ==
  LET choices == UnwrapOr(GetAs(data, "choices", "arr"), <<>>) IN
  IF choices = <<>> THEN ErrorResponse("Error: No choices in LLM response")
  ELSE
    LET choice == choices[1]
        message == UnwrapOr(GetAs(choice, "message", "any"), JNull)
        tc_array == UnwrapOr(GetAs(message, "tool_calls", "arr"), <<>>)
        usage_obj == UnwrapOr(GetAs(data, "usage", "obj"), <<>>)
    IN  [content |-> GetAs(message, "content", "str"),
         tool_calls |-> [i \in 1..Len(tc_array) |-> ParseToolCall(tc_array[i])],
         finish_reason |-> UnwrapOr(GetAs(choice, "finish_reason", "str"), "stop"),
         usage |-> [k \in {x \in DOMAIN usage_obj : usage_obj[x].t = "num"} |->
                      usage_obj[k].v]]

\* OpenAICompatProvider::chat on the outcome h of the HTTP exchange: h.send
\* and h.read are "ok" or the reqwest error's text, h.status the status,
\* h.text the body, h.data the body's JSON value (None when it is not JSON).
\* The result is the anyhow::Result: ok says Ok(..) or Err(..).
Chat(h) ==
  [ok |-> TRUE,
   resp |->
     IF h.send # "ok" THEN ErrorResponse("Error calling LLM: " \o h.send)
     ELSE IF h.read # "ok" THEN ErrorResponse("Error reading LLM response: " \o h.read)
     ELSE IF h.status \notin 200..299
       THEN ErrorResponse("Error calling LLM (HTTP " \o ToString(h.status) \o "): " \o h.text)
     ELSE IF h.data = None
       THEN ErrorResponse("Error parsing LLM response JSON: expected value at line 1 column 1")
     ELSE ParseResponse(h.data[1])]

\* LLMResponse::has_tool_calls
HasToolCalls(resp) == resp.tool_calls # <<>>

\* --------------------------------------------------------- provider inputs
\* The outcomes of the HTTP exchange. The tool_calls arrays a body carries:
\* none, one call, a call without an id, the same id twice, arguments that
\* are not JSON, arguments given as an object, an element that is not an
\* object.
HttpOutcomes ==
  LET Call(id, args) ==
        JObj([id |-> JStr(id), type |-> JStr("function"),
              function |-> JObj([name |-> JStr("echo"), arguments |-> args])])
      NoId == JObj([function |-> JObj([name |-> JStr("echo")])])
      ping == JStr("{\"text\":\"ping\"}")
      ToolCallArrays ==
        { <<>>, <<Call("t1", ping)>>, <<NoId>>, <<NoId, NoId>>,
          <<Call("t1", ping), Call("t1", JStr("{}"))>>,
          <<Call("t1", ping), Call("t2", JStr("oops"))>>,
          <<Call("t2", JObj([text |-> JStr("pong")]))>>, <<JNull>> }
      Message(content, tcs) ==
        JObj([m \in {"role", "content"} \cup (IF tcs = <<>> THEN {} ELSE {"tool_calls"}) |->
               CASE m = "role" -> JStr("assistant")
                 [] m = "content" -> content
                 [] m = "tool_calls" -> JArr(tcs)])
      Choice(message, reason) ==
        JObj([message |-> message, finish_reason |-> JStr(reason)])
      Bodies ==
        { JObj([choices |-> JArr(<<Choice(Message(c, tcs), IF tcs = <<>> THEN "stop" ELSE "tool_calls")>>),
                usage |-> JObj([total_tokens |-> JNum(12), cost |-> JStr("n/a")])]) :
            c \in {JStr("hello"), JNull}, tcs \in ToolCallArrays }
        \cup { JObj([choices |-> JArr(<<>>)]), JObj([choices |-> JNull]),
               JObj([error |-> JObj([message |-> JStr("overloaded")])]),
               JObj([choices |-> JArr(<<JObj([index |-> JNum(0)])>>)]),
               JArr(<<>>), JStr("ok") }
      Answer(status, text, data) ==
        [send |-> "ok", read |-> "ok", status |-> status, text |-> text, data |-> data]
  IN  { Answer(200, "{...}", Some(b)) : b \in Bodies }
      \cup { Answer(s, "rate limited", None) : s \in {200, 204, 401, 429, 500} }
      \cup { Answer(500, "{...}", Some(b)) :
               b \in {x \in Bodies : GetAs(x, "error", "obj") # None} }
      \cup { [Answer(200, "", None) EXCEPT !.send = "error sending request"],
             [Answer(200, "", None) EXCEPT !.read = "error decoding response body"] }

\* One call of chat, with what the HTTP exchange did.
ChatCall(h) ==
  /\ provLast' = [h |-> h, ret |-> Chat(h)]
  /\ UNCHANGED <<cronVars, regVars, toolLast, agentVars, waVars, memVars, mtVars>>

ProvNext == \E h \in HttpOutcomes : ChatCall(h)

ProvSpec == Init /\ [][ProvNext]_vars

\* -------------------------------------------------------------- agent loop
\* process_direct follows the design document's description of the loop
\* (section 4.5, steps 1 to 5); its caller (main.rs cmd_agent) and the
\* helpers it uses (context.rs, the provider, the registry) follow their code.

\* ContextBuilder::add_tool_result
AddToolResult(messages, tool_call_id, tool_name, result) ==
  Append(messages, [role |-> "tool", tool_call_id |-> tool_call_id,
                    name |-> tool_name, content |-> result])

\* ContextBuilder::add_assistant_message
AddAssistantMessage(messages, content, tool_calls) ==
  Append(messages,
         IF tool_calls # None /\ tool_calls[1] # <<>>
           THEN [role |-> "assistant", content |-> UnwrapOr(content, ""),
                 tool_calls |-> tool_calls[1]]
           ELSE [role |-> "assistant", content |-> UnwrapOr(content, "")])

\* ContextBuilder::build_messages
BuildMessages(hist, current_message) ==
  <<[role |-> "system", content |-> "system prompt"]>> \o hist
    \o <<[role |-> "user", content |-> current_message]>>

\* The registry of the scenarios: echo(text) -> text.
EchoRegistry == HashMapInsert(RegistryNew, "echo", [name |-> "echo", impl |-> "first"])

\* Step 4d for the calls tcs[from..]: each call is dispatched through the
\* registry and its tool record appended, in order.
RECURSIVE RunToolCalls(_, _, _)
RunToolCalls(messages, tcs, from) ==
  IF from > Len(tcs) THEN messages
  ELSE LET tc == tcs[from]
           out == IF "text" \in DOMAIN tc.arguments THEN tc.arguments["text"].v ELSE ""
           result == Dispatch(EchoRegistry, tc.name, tc.arguments, out).ret
       IN  RunToolCalls(AddToolResult(messages, tc.id, tc.name, result), tcs, from + 1)

MaxIterationsMessage == "Maximum tool iterations reached."

\* A loop that goes round once more than max_tool_iterations.
LoopContinuesOnceMore(iter) == iter <= MaxToolIterations

\* Step 4: the loop is bounded by max_tool_iterations.
LoopContinues(iter) == iter < MaxToolIterations

\* process_direct, steps 1 to 3: the history of the session is looked up or
\* created, the message list built, the user record kept in the history.
ProcessDirect(message, session_id) ==
  /\ ~turn.active
  /\ turns < MaxTurns
  /\ turns' = turns + 1
  /\ turn' = [active |-> TRUE, session |-> session_id,
              messages |-> BuildMessages(history[session_id], message),
              iter |-> 0, calls |-> 0, ret |-> None]
  /\ history' = [history EXCEPT ![session_id] =
                   Append(@, [role |-> "user", content |-> message])]
  /\ UNCHANGED nonAgentVars

\* One round of the loop, steps 4a to 4e, on the outcome h of the provider's
\* HTTP exchange.
Iterate(h) ==
  /\ turn.active
  /\ LoopContinues(turn.iter)
  /\ LET resp == Chat(h).resp
         \* what steps 4c and 4d add to a message list
         ToolRound(messages) ==
           RunToolCalls(AddAssistantMessage(messages, resp.content, Some(resp.tool_calls)),
                        resp.tool_calls, 1)
     IN
     IF ~HasToolCalls(resp)
       THEN /\ history' = [history EXCEPT ![turn.session] =
                             AddAssistantMessage(@, resp.content, None)]
            /\ turn' = [turn EXCEPT !.active = FALSE, !.calls = @ + 1,
                                    !.ret = Some(UnwrapOr(resp.content, ""))]
       ELSE /\ history' = [history EXCEPT ![turn.session] = ToolRound(@)]
            /\ turn' = [turn EXCEPT !.messages = ToolRound(@),
                                    !.iter = @ + 1, !.calls = @ + 1]
  /\ UNCHANGED turns
  /\ UNCHANGED nonAgentVars

\* Step 5: the loop is exhausted.
Exhausted ==
  /\ turn.active
  /\ ~LoopContinues(turn.iter)
  /\ history' = [history EXCEPT ![turn.session] =
                   AddAssistantMessage(@, Some(MaxIterationsMessage), None)]
  /\ turn' = [turn EXCEPT !.active = FALSE, !.ret = Some(MaxIterationsMessage)]
  /\ UNCHANGED turns
  /\ UNCHANGED nonAgentVars

\* What the provider answers during a turn: a text, a failure, one call, the
\* same id twice in one list, two calls without an id.
LoopOutcomes ==
  { h \in HttpOutcomes :
      LET r == Chat(h).resp IN
      /\ h.send = "ok" /\ h.read = "ok" /\ h.status \in {200, 429}
      /\ r.finish_reason = "error" => h.status = 429
      /\ r.content # None
      /\ [i \in 1..Len(r.tool_calls) |-> r.tool_calls[i].id]
           \in {<<>>, <<"t1">>, <<"t1", "t1">>, <<"", "">>} }

AgentNext ==
  \/ \E session_id \in Sessions : ProcessDirect("hi", session_id)
  \/ \E h \in LoopOutcomes : Iterate(h)
  \/ Exhausted

AgentSpec == Init /\ [][AgentNext]_vars

\* ---------------------------------------------------------------- whatsapp
\* The phone number of a JID: sender.split('@').next().
ChatIdOf(sender) ==
  LET ats == {i \in 1..Len(sender) : SubSeq(sender, i, i) = "@"} IN
  IF ats = {} THEN sender
  ELSE SubSeq(sender, 1, (CHOOSE i \in ats : \A j \in ats : i <= j) - 1)

\* A filter that looks for the raw sender only.
AllowedBySenderOnly(allow_from, chat_id, sender) ==
  allow_from = <<>> \/ \E i \in 1..Len(allow_from) : allow_from[i] = sender

\* The allow-list check of _handle_bridge_message.
Allowed(allow_from, chat_id, sender) ==
  \/ allow_from = <<>>
  \/ \E i \in 1..Len(allow_from) : allow_from[i] = chat_id
  \/ \E i \in 1..Len(allow_from) : allow_from[i] = sender

\* A bus that hands the newest message out first.
BusSendFirst(bus, msg) == <<msg>> \o bus

\* bus_tx.send(msg): the unbounded bus after the message is pushed.
BusSend(bus, msg) == Append(bus, msg)

\* WhatsAppChannel::_handle_bridge_message: the bus after the frame's JSON
\* value data is handled (the bus receiver is alive).
HandleBridgeMessage(data, bus, allow_from) ==
  IF UnwrapOr(GetAs(data, "type", "str"), "") # "message" THEN bus
  ELSE
    LET sender == UnwrapOr(GetAs(data, "sender", "str"), "")
        content == UnwrapOr(GetAs(data, "content", "str"), "")
        chat_id == ChatIdOf(sender)
        keys == {"is_group"}
                  \cup (IF GetAs(data, "id", "str") # None THEN {"message_id"} ELSE {})
                  \cup (IF GetAs(data, "timestamp", "any") # None THEN {"timestamp"} ELSE {})
    IN  IF ~Allowed(allow_from, chat_id, sender) THEN bus
        ELSE BusSend(bus,
               [channel |-> "whatsapp", chat_id |-> chat_id, sender_id |-> sender,
                content |-> IF content = "[Voice Message]"
                              THEN "[Voice Message: Transcription not available for WhatsApp yet]"
                              ELSE content,
                media |-> <<>>,
                metadata |->
                  [k \in keys |->
                     CASE k = "message_id" -> JStr(GetAs(data, "id", "str")[1])
                       [] k = "timestamp" -> GetAs(data, "timestamp", "any")[1]
                       [] k = "is_group" ->
                            [t |-> "bool",
                             b |-> UnwrapOr(GetAs(data, "isGroup", "bool"), FALSE)]]])

\* The record of a call: l is the previous record.
WaCalled(l, op, arg, ret) ==
  [op |-> op, prev |-> l.op, arg |-> arg, ret |-> ret, flip |-> ~l.flip]

\* WhatsAppChannel::new
WaNew(allow_from) ==
  /\ waConfig = None
  /\ waConfig' = Some([allow_from |-> allow_from])
  /\ waLast' = WaCalled(waLast, "new", [kind |-> "none"], "Ok")
  /\ UNCHANGED <<waRunning, wsTx, tasks, conns, waUsed, inbound>>
  /\ UNCHANGED nonWaVars

\* start: the flag is set and the connection task spawned.
WaStart ==
  /\ waConfig # None
  /\ waUsed < MaxWaInputs
  /\ waUsed' = waUsed + 1
  /\ waRunning' = TRUE
  /\ tasks' = Append(tasks, [pc |-> "check", conn |-> 0])
  /\ waLast' = WaCalled(waLast, "start", [kind |-> "none"], "Ok")
  /\ UNCHANGED <<waConfig, wsTx, conns, inbound>>
  /\ UNCHANGED nonWaVars

\* A stop that leaves the send handle where it is.
StopFlagOnly(slot) == slot

\* stop: what becomes of the send handle.
StopSlot(slot) == None

\* stop
WaStop ==
  /\ waConfig # None
  /\ waRunning' = FALSE
  /\ wsTx' = StopSlot(wsTx)
  /\ waLast' = WaCalled(waLast, "stop", [kind |-> "none"], "Ok")
  /\ UNCHANGED <<waConfig, tasks, conns, waUsed, inbound>>
  /\ UNCHANGED nonWaVars

\* is_running
IsRunning == waRunning

\* A send that reports success whatever becomes of the frame.
SendOutcomeLax(slot, cs, msg) ==
  IF slot = None
    THEN [ret |-> "Ok", conns |-> cs]
    ELSE [ret |-> "Ok",
          conns |-> [cs EXCEPT ![slot[1]].queue =
                       Append(@, [type |-> "send", to |-> msg.chat_id, text |-> msg.content])]]

\* send: what it returns and what becomes of the queues, for the slot's
\* content and the connections cs. The receiving end of a queue is gone once
\* the writer task that owns it has ended or was aborted.
SendOutcome(slot, cs, msg) ==
  IF slot = None
    THEN [ret |-> "Err: WhatsApp bridge not connected", conns |-> cs]
  ELSE IF cs[slot[1]].writer \in {"ended", "aborted"}
    THEN [ret |-> "Err: Failed to send WhatsApp message: channel closed", conns |-> cs]
  ELSE [ret |-> "Ok",
        conns |-> [cs EXCEPT ![slot[1]].queue =
                     Append(@, [type |-> "send", to |-> msg.chat_id, text |-> msg.content])]]

\* send
WaSend(msg) ==
  /\ waConfig # None
  /\ waUsed < MaxWaInputs
  /\ waUsed' = waUsed + 1
  /\ conns' = SendOutcome(wsTx, conns, msg).conns
  /\ waLast' = WaCalled(waLast, "send", msg, SendOutcome(wsTx, conns, msg).ret)
  /\ UNCHANGED <<waConfig, waRunning, wsTx, tasks, inbound>>
  /\ UNCHANGED nonWaVars

\* The connection task t at `while running.load(..)`.
Check(t) ==
  /\ tasks[t].pc = "check"
  /\ tasks' = [tasks EXCEPT ![t].pc = IF waRunning THEN "connecting" ELSE "done"]
  /\ UNCHANGED <<waConfig, waRunning, wsTx, conns, waLast, waUsed, inbound>>
  /\ UNCHANGED nonWaVars

\* connect_async returns. Ok: the queue is created, its sender stored in the
\* slot, the writer task spawned, and the task starts reading.
Connect(t, ok) ==
  /\ tasks[t].pc = "connecting"
  /\ waUsed < MaxWaInputs
  /\ waUsed' = waUsed + 1
  /\ IF ok
       THEN /\ conns' = Append(conns, [queue |-> <<>>, writer |-> "check", written |-> <<>>])
            /\ wsTx' = Some(Len(conns) + 1)
            /\ tasks' = [tasks EXCEPT ![t] = [pc |-> "reading", conn |-> Len(conns) + 1]]
       ELSE /\ tasks' = [tasks EXCEPT ![t].pc = "backoff"]
            /\ UNCHANGED <<conns, wsTx>>
  /\ UNCHANGED <<waConfig, waRunning, waLast, inbound>>
  /\ UNCHANGED nonWaVars

\* One turn of the read loop on what read.next() yields.
Read(t, frame) ==
  /\ tasks[t].pc = "reading"
  /\ waUsed < MaxWaInputs
  /\ waUsed' = waUsed + 1
  /\ waLast' = WaCalled(waLast, "read", frame, "")
  /\ IF frame.kind = "text"
       THEN /\ inbound' = IF frame.data = None THEN inbound
                          ELSE HandleBridgeMessage(frame.data[1], inbound,
                                                   waConfig[1].allow_from)
            /\ UNCHANGED tasks
       ELSE /\ tasks' = [tasks EXCEPT ![t].pc =
                           IF frame.kind \in {"close", "error", "end"}
                             THEN "cleanup" ELSE @]
            /\ UNCHANGED inbound
  /\ UNCHANGED <<waConfig, waRunning, wsTx, conns>>
  /\ UNCHANGED nonWaVars

\* An abort that leaves the writer running.
AbortWriterSkipped(cs, c) == cs

\* writer_handle.abort(): the writer of connection c is cancelled, unless it
\* has ended by itself.
AbortWriter(cs, c) ==
  [cs EXCEPT ![c].writer = IF @ = "ended" THEN @ ELSE "aborted"]

\* The clean-up after the read loop: the slot is cleared, the writer aborted.
Cleanup(t) ==
  /\ tasks[t].pc = "cleanup"
  /\ wsTx' = None
  /\ conns' = AbortWriter(conns, tasks[t].conn)
  /\ tasks' = [tasks EXCEPT ![t].pc = "backoff"]
  /\ UNCHANGED <<waConfig, waRunning, waLast, waUsed, inbound>>
  /\ UNCHANGED nonWaVars

\* A task that gives the adapter up on its way to the sleep.
BackoffGivingUp(t) ==
  /\ tasks[t].pc = "backoff"
  /\ tasks' = [tasks EXCEPT ![t].pc = "check"]
  /\ waRunning' = FALSE
  /\ UNCHANGED <<waConfig, wsTx, conns, waLast, waUsed, inbound>>
  /\ UNCHANGED nonWaVars

\* `if running.load(..)` before the sleep.
Backoff(t) ==
  /\ tasks[t].pc = "backoff"
  /\ tasks' = [tasks EXCEPT ![t].pc = IF waRunning THEN "sleeping" ELSE "check"]
  /\ UNCHANGED <<waConfig, waRunning, wsTx, conns, waLast, waUsed, inbound>>
  /\ UNCHANGED nonWaVars

\* The 5 s sleep is over.
Wake(t) ==
  /\ tasks[t].pc = "sleeping"
  /\ tasks' = [tasks EXCEPT ![t].pc = "check"]
  /\ UNCHANGED <<waConfig, waRunning, wsTx, conns, waLast, waUsed, inbound>>
  /\ UNCHANGED nonWaVars

\* The writer of connection c at `while writer_running.load(..)`.
WriterCheck(c) ==
  /\ conns[c].writer = "check"
  /\ conns' = [conns EXCEPT ![c].writer = IF waRunning THEN "recv" ELSE "ended"]
  /\ UNCHANGED <<waConfig, waRunning, wsTx, tasks, waLast, waUsed, inbound>>
  /\ UNCHANGED nonWaVars

\* A writer that takes the newest frame of the queue.
WriterRecvNewest(c, ok) ==
  /\ conns[c].writer = "recv"
  /\ conns[c].queue # <<>>
  /\ conns' = [conns EXCEPT
                 ![c].queue = SubSeq(@, 1, Len(@) - 1),
                 ![c].written = IF ok THEN Append(@, conns[c].queue[Len(conns[c].queue)])
                                ELSE @,
                 ![c].writer = IF ok THEN "check" ELSE "ended"]
  /\ UNCHANGED <<waConfig, waRunning, wsTx, tasks, waLast, waUsed, inbound>>
  /\ UNCHANGED nonWaVars

\* out_rx.recv() returns in the writer of connection c: a frame, which the
\* socket takes (ok) or not, or None once the queue is empty and its sender
\* gone from the slot.
WriterRecv(c, ok) ==
  /\ conns[c].writer = "recv"
  /\ IF conns[c].queue # <<>>
       THEN conns' = [conns EXCEPT
                        ![c].queue = Tail(@),
                        ![c].written = IF ok THEN Append(@, conns[c].queue[1]) ELSE @,
                        ![c].writer = IF ok THEN "check" ELSE "ended"]
       ELSE /\ wsTx # Some(c)
            /\ ok
            /\ conns' = [conns EXCEPT ![c].writer = "ended"]
  /\ UNCHANGED <<waConfig, waRunning, wsTx, tasks, waLast, waUsed, inbound>>
  /\ UNCHANGED nonWaVars

\* What read.next() yields: text frames (data is the JSON value, None when
\* the text is not JSON), a close frame, a read error, a ping, the end of
\* the stream.
Frames ==
  LET Message(sender, content) ==
        JObj([type |-> JStr("message"), sender |-> JStr(sender),
              content |-> JStr(content), id |-> JStr("m1"), isGroup |-> [t |-> "bool", b |-> TRUE]])
  IN  { [kind |-> "text", data |-> Some(Message(s, "hello"))] :
          s \in {"123@s.whatsapp.net", "999@s.whatsapp.net", "555", "777@g.us"} }
      \cup { [kind |-> "text", data |-> d] :
               d \in { Some(Message("123@s.whatsapp.net", "[Voice Message]")),
                       Some(JObj([type |-> JStr("message"), timestamp |-> JNum(7)])),
                       Some(JObj([type |-> JStr("status"), status |-> JStr("connected")])),
                       None } }
      \cup { [kind |-> k, data |-> None] : k \in {"close", "error", "ping", "end"} }

WaNext ==
  \/ \E allow_from \in {<<>>, <<"123">>, <<"999@s.whatsapp.net", "555">>} :
       WaNew(allow_from)
  \/ WaStart
  \/ WaStop
  \/ \E msg \in [channel : {"whatsapp"}, chat_id : {"123"}, content : {"one", "two"}] :
       WaSend(msg)
  \/ \E t \in 1..Len(tasks) : Check(t)
  \/ \E t \in 1..Len(tasks), ok \in BOOLEAN : Connect(t, ok)
  \/ \E t \in 1..Len(tasks), frame \in Frames : Read(t, frame)
  \/ \E t \in 1..Len(tasks) : Cleanup(t)
  \/ \E t \in 1..Len(tasks) : Backoff(t)
  \/ \E t \in 1..Len(tasks) : Wake(t)
  \/ \E c \in 1..Len(conns) : WriterCheck(c)
  \/ \E c \in 1..Len(conns), ok \in BOOLEAN : WriterRecv(c, ok)

WaSpec == Init /\ [][WaNext]_vars

\* The adapter's control flow alone: one allow-list, one outbound content,
\* and of the frames one of each arm of the read loop's match.
WaFlowNext ==
  \/ WaNew(<<>>)
  \/ WaStart
  \/ WaStop
  \/ \E msg \in [channel : {"whatsapp"}, chat_id : {"123"}, content : {"one"}] : WaSend(msg)
  \/ \E t \in 1..Len(tasks) : Check(t)
  \/ \E t \in 1..Len(tasks), ok \in BOOLEAN : Connect(t, ok)
  \/ \E t \in 1..Len(tasks) :
       \E frame \in {f \in Frames : f.kind # "text" \/ f.data = None} : Read(t, frame)
  \/ \E t \in 1..Len(tasks) : Cleanup(t)
  \/ \E t \in 1..Len(tasks) : Backoff(t)
  \/ \E t \in 1..Len(tasks) : Wake(t)
  \/ \E c \in 1..Len(conns) : WriterCheck(c)
  \/ \E c \in 1..Len(conns), ok \in BOOLEAN : WriterRecv(c, ok)

\* The connection tasks are scheduled: a task that can take a step by itself
\* eventually takes it.
WaFairSpec ==
  /\ Init /\ [][WaFlowNext]_vars
  /\ \A t \in 1..MaxWaInputs :
       WF_vars(t <= Len(tasks) /\ (Check(t) \/ Cleanup(t) \/ Backoff(t) \/ Wake(t)))

\* ------------------------------------------------------------ memory store
\* today_date(): the local date as YYYY-MM-DD.
TodayDate == "2024-01-01"

\* MemoryStore::read_today, its fs::read_to_string succeeding or failing.
ReadToday(read_ok) ==
  /\ memLast' = [op |-> "read_today", read_ok |-> read_ok,
                 ret |-> IF memFile # None /\ read_ok THEN memFile[1] ELSE ""]
  /\ UNCHANGED <<memFile, memLog, cronVars, regVars, toolLast, provLast, agentVars,
                 waVars, mtVars>>

\* MemoryStore::append_today, its fs::read_to_string and its fs::write
\* succeeding or failing (a failing write leaves the file as it was).
AppendToday(content, read_ok, write_ok) ==
  LET existing == IF read_ok THEN memFile[1] ELSE ""
      full_content ==
        IF memFile # None THEN existing \o "\n" \o content
        ELSE "# " \o TodayDate \o "\n\n" \o content
  IN  /\ Len(memLog) < MaxAppends
      /\ memFile' = IF write_ok THEN Some(full_content) ELSE memFile
      /\ memLog' = Append(memLog, [content |-> content, written |-> write_ok])
      /\ memLast' = [op |-> "append_today", ret |-> "", read_ok |-> read_ok]
      /\ UNCHANGED <<cronVars, regVars, toolLast, provLast, agentVars, waVars, mtVars>>

MemNext ==
  \/ \E read_ok \in BOOLEAN : ReadToday(read_ok)
  \/ \E content \in {"a", "b"}, read_ok, write_ok \in BOOLEAN :
       AppendToday(content, read_ok, write_ok)

MemSpec == Init /\ [][MemNext]_vars

\* ------------------------------------------- message and spawn tools, shared
\* A call returns: its frame leaves the task's stack, the call it was made
\* from (the callback of an execute) has one more nested call behind it.
Returned(t) ==
  LET rest == SubSeq(mtStack[t], 1, Len(mtStack[t]) - 1) IN
  [mtStack EXCEPT ![t] =
     IF rest = <<>> THEN rest
     ELSE [rest EXCEPT ![Len(rest)].nested = @ + 1]]

\* What a returning call leaves behind in mtLast.
Outcome(f, ret) ==
  [tool |-> f.tool, op |-> f.op, ret |-> ret, channel |-> f.channel, chat_id |-> f.chat_id,
   defaults |-> f.params.channel = "" /\ f.params.chat_id = "", nested |-> f.nested]

\* Task t calls set_context, set_send_callback / set_callback or execute on
\* tool k: from the top level, or from inside the callback that an execute
\* of this task is awaiting.  For set_context, channel and chat_id are its
\* arguments; for execute, params holds the channel and chat_id parameters
\* ("" when absent or empty; the spawn tool has none).
Call(t, k, op, channel, chat_id) ==
  LET st == mtStack[t]
      frame == [tool |-> k, op |-> op, pc |-> IF op = "set_callback" THEN "callback" ELSE "channel",
                channel |-> IF op = "set_context" THEN channel ELSE "",
                chat_id |-> IF op = "set_context" THEN chat_id ELSE "",
                params |-> IF op = "execute" THEN [channel |-> channel, chat_id |-> chat_id]
                           ELSE [channel |-> "", chat_id |-> ""],
                nested |-> 0]
  IN  /\ mtCalls < MaxToolCalls
      /\ \/ st = <<>>
         \/ Len(st) = 1 /\ st[1].op = "execute" /\ st[1].pc = "await"
      /\ op = "execute" /\ k = "spawn" => channel = "" /\ chat_id = ""
      /\ mtStack' = [mtStack EXCEPT ![t] = Append(st, frame)]
      /\ mtInstalled' = IF op = "set_context"
                          THEN [mtInstalled EXCEPT ![k] = @ \cup {<<channel, chat_id>>}]
                          ELSE mtInstalled
      /\ mtCalls' = mtCalls + 1
      /\ UNCHANGED <<mtFields, mtLocks, mtLast, nonMtVars>>

\* MessageTool::set_context / SpawnTool::set_context: two statements, each
\* locks one mutex, assigns, and unlocks at its end.
SetContext(t) ==
  LET st == mtStack[t]
      f == st[Len(st)]
  IN  /\ st # <<>>
      /\ f.op = "set_context"
      /\ mtLocks[f.tool][f.pc] = 0
      /\ IF f.pc = "channel"
           THEN /\ mtFields' = [mtFields EXCEPT ![f.tool].channel = f.channel]
                /\ mtStack' = [mtStack EXCEPT ![t][Len(st)].pc = "chat_id"]
                /\ UNCHANGED mtLast
           ELSE /\ mtFields' = [mtFields EXCEPT ![f.tool].chat_id = f.chat_id]
                /\ mtStack' = Returned(t)
                /\ mtLast' = Outcome(f, "")
      /\ UNCHANGED <<mtLocks, mtInstalled, mtCalls, nonMtVars>>

\* MessageTool::set_send_callback / SpawnTool::set_callback
SetCallback(t) ==
  LET st == mtStack[t]
      f == st[Len(st)]
  IN  /\ st # <<>>
      /\ f.op = "set_callback"
      /\ mtLocks[f.tool].callback = 0
      /\ mtFields' = [mtFields EXCEPT ![f.tool].callback = TRUE]
      /\ mtStack' = Returned(t)
      /\ mtLast' = Outcome(f, "")
      /\ UNCHANGED <<mtLocks, mtInstalled, mtCalls, nonMtVars>>

\* execute: the two statements that read the context, each locking one
\* mutex, cloning the string and unlocking at its end.
ReadContext(t) ==
  LET st == mtStack[t]
      f == st[Len(st)]
  IN  /\ st # <<>>
      /\ f.op = "execute"
      /\ f.pc \in {"channel", "chat_id"}
      /\ mtLocks[f.tool][f.pc] = 0
      /\ mtStack' = [mtStack EXCEPT ![t][Len(st)] =
                       IF f.pc = "channel"
                         THEN [f EXCEPT !.channel = mtFields[f.tool].channel, !.pc = "chat_id"]
                         ELSE [f EXCEPT !.chat_id = mtFields[f.tool].chat_id, !.pc = "callback"]]
      /\ UNCHANGED <<mtFields, mtLocks, mtInstalled, mtLast, mtCalls, nonMtVars>>

\* drop(callback_guard): who holds the callback mutex once the callback is
\* cloned and before it is awaited.
DropGuardKept(t) == t
DropGuard(t) == 0

\* execute: the target (message tool: the parameters, else the context
\* read), the test for an empty target, then the callback mutex is locked,
\* the callback cloned and the guard dropped.
TakeCallback(t) ==
  LET st == mtStack[t]
      f == st[Len(st)]
      target == [f EXCEPT !.channel = IF f.params.channel # "" THEN f.params.channel ELSE @,
                          !.chat_id = IF f.params.chat_id # "" THEN f.params.chat_id ELSE @]
  IN  /\ st # <<>>
      /\ f.op = "execute"
      /\ f.pc = "callback"
      /\ IF f.tool = "message" /\ (target.channel = "" \/ target.chat_id = "")
           THEN /\ mtStack' = Returned(t)
                /\ mtLast' = Outcome(target, "Error: No target channel/chat specified")
                /\ UNCHANGED mtLocks
           ELSE /\ mtLocks[f.tool].callback = 0
                /\ IF ~mtFields[f.tool].callback
                     THEN /\ mtStack' = Returned(t)
                          /\ mtLast' = Outcome(target,
                                 IF f.tool = "message" THEN "Error: Message sending not configured"
                                 ELSE "Error: Spawn callback not configured")
                          /\ UNCHANGED mtLocks
                     ELSE /\ mtStack' = [mtStack EXCEPT ![t][Len(st)] =
                                           [target EXCEPT !.pc = "await"]]
                          /\ mtLocks' = [mtLocks EXCEPT ![f.tool].callback = DropGuard(t)]
                          /\ UNCHANGED mtLast
      /\ UNCHANGED <<mtFields, mtInstalled, mtCalls, nonMtVars>>

\* execute: the awaited callback completes (the send succeeded or failed,
\* the subagent's announcement) and execute returns; the guards still alive
\* are dropped with it.
CallbackReturns(t, ok) ==
  LET st == mtStack[t]
      f == st[Len(st)]
  IN  /\ st # <<>>
      /\ f.op = "execute"
      /\ f.pc = "await"
      /\ mtStack' = Returned(t)
      /\ mtLast' = Outcome(f,
            IF f.tool = "spawn" THEN (IF ok THEN "Subagent started" ELSE "failed to start subagent")
            ELSE IF ok THEN "Message sent to " \o f.channel \o ":" \o f.chat_id
            ELSE "Error sending message: WhatsApp bridge not connected")
      /\ mtLocks' = [mtLocks EXCEPT ![f.tool].callback = IF @ = t THEN 0 ELSE @]
      /\ UNCHANGED <<mtFields, mtInstalled, mtCalls, nonMtVars>>

MtNext ==
  \/ \E t \in {1, 2}, k \in {"message", "spawn"} : Call(t, k, "set_context", "telegram", "42")
  \/ \E t \in {1, 2}, k \in {"message", "spawn"} : Call(t, k, "set_callback", "", "")
  \/ \E t \in {1, 2}, k \in {"message", "spawn"} : Call(t, k, "execute", "", "")
  \/ \E t \in {1, 2} : Call(t, "message", "execute", "whatsapp", "123")
  \/ \E t \in {1, 2} : SetContext(t)
  \/ \E t \in {1, 2} : SetCallback(t)
  \/ \E t \in {1, 2} : ReadContext(t)
  \/ \E t \in {1, 2} : TakeCallback(t)
  \/ \E t \in {1, 2}, ok \in BOOLEAN : CallbackReturns(t, ok)

MtSpec == Init /\ [][MtNext]_vars

\* Every task is scheduled again while it has a step to take, and the
\* callback it awaits completes.
MtFairSpec ==
  /\ MtSpec
  /\ \A t \in {1, 2} :
       WF_vars(SetContext(t) \/ SetCallback(t) \/ ReadContext(t) \/ TakeCallback(t)
               \/ CallbackReturns(t, TRUE))

\* ================================================================ claims
\* The write of the last mutating call on instance i went through.
Written(i) == pc[i] = "idle" /\ last[i].wr = "ok"

\* jobs2 is jobs without the jobs whose id is job_id: the others, unchanged
\* and in their original order.
IsRestWithout(jobs2, jobs, job_id) ==
  LET keep == {k \in 1..Len(jobs) : jobs[k].id # job_id}
  IN /\ Len(jobs2) = Cardinality(keep)
     /\ \E f \in [1..Len(jobs2) -> keep] :
          /\ \A a, b \in 1..Len(jobs2) : a < b => f[a] < f[b]
          /\ \A a \in 1..Len(jobs2) : jobs2[a] = jobs[f[a]]

C2_UniqueIds ==
  \A i \in Insts : \A k, m \in 1..Len(store[i].jobs) :
    k # m => store[i].jobs[k].id # store[i].jobs[m].id

\* C3: after add_job, after remove_job returning true and after enable_job
\* returning a job, when the write succeeded, the file is a document that
\* deserializes to the in-memory store: same version, same jobs, same order.
C3_FileIsStore ==
  \A i \in Insts :
    (/\ Written(i)
     /\ \/ last[i].op = "add_job"
        \/ last[i].op = "remove_job" /\ last[i].retBool
        \/ last[i].op = "enable_job" /\ last[i].retJob # None)
    => /\ file.st = "json"
       /\ ValidStoreJson(file.doc)
       /\ FromJsonStore(file.doc).version = store[i].version
       /\ FromJsonStore(file.doc).jobs = store[i].jobs

\* A store of another version with a disabled job and an added one has been
\* written.
C3_Witness ==
  /\ Written(1)
  /\ last[1].op = "enable_job"
  /\ last[1].retJob # None
  /\ store[1].version = 2
  /\ Len(store[1].jobs) = 2
  /\ ~store[1].jobs[1].enabled

\* C4: a service constructed while another instance is inside std::fs::write
\* reads the whole previous or the whole new document, never an empty or
\* partial file.
C4_NoTornRead ==
  \A i \in Insts :
    (last[i].op = "new" /\ last[i].during) => last[i].saw \notin {"empty", "partial"}

\* C5: a failed persist (the create or the write) leaves the mutation in
\* memory and the call's result as it is, and the next write that succeeds
\* puts the whole in-memory store, that mutation included, into the file.
C5_SelfHeal ==
  [][\A i \in Insts :
       \* the create failed: the call still did what it does
       /\ (pc[i] = "idle" /\ pc'[i] = "idle" /\ fails' # fails) =>
            /\ last'[i].dirty
            /\ last'[i].op = "add_job" =>
                 /\ last'[i].retJob # None
                 /\ store'[i].jobs = Append(store[i].jobs, last'[i].retJob[1])
            /\ last'[i].op = "remove_job" =>
                 /\ last'[i].retBool
                 /\ Len(store'[i].jobs) < Len(store[i].jobs)
            /\ last'[i].op = "enable_job" =>
                 /\ last'[i].retJob # None
                 /\ \E k \in 1..Len(store'[i].jobs) :
                      Some(store'[i].jobs[k]) = last'[i].retJob
       \* the write failed: memory and the result are untouched
       /\ (pc[i] = "writing" /\ pc'[i] = "idle" /\ fails' # fails) =>
            /\ store'[i] = store[i]
            /\ last'[i].dirty
            /\ last'[i].retJob = last[i].retJob
            /\ last'[i].retBool = last[i].retBool
       \* a write succeeds after a failed one: the file is the whole store
       /\ (last[i].dirty /\ pc[i] = "writing" /\ pc'[i] = "idle" /\ fails' = fails) =>
            /\ store'[i] = store[i]
            /\ file'.st = "json"
            /\ LoadStore(file') = store'[i]
            /\ ~last'[i].dirty]_vars

\* The write of add_job failed, a later enable_job was written, and the file
\* holds both jobs.
C5_Witness ==
  /\ fails = 1
  /\ Written(1)
  /\ ~last[1].dirty
  /\ last[1].op = "enable_job"
  /\ Len(store[1].jobs) = 2
  /\ file.st = "json"
  /\ Len(file.doc.jobs) = 2

\* Instance i is started and holds an enabled job of that id whose next run
\* time has been reached.
Due(i, id) ==
  /\ running[i]
  /\ \E k \in 1..Len(store[i].jobs) :
       /\ store[i].jobs[k].id = id
       /\ store[i].jobs[k].enabled
       /\ store[i].jobs[k].state.next_run_at_ms # None
       /\ now >= store[i].jobs[k].state.next_run_at_ms[1]

\* The inbound stream holds the cron message of a job of instance i with
\* that id.
Fired(i, id) ==
  \E k \in 1..Len(store[i].jobs), m \in 1..Len(inbound) :
    /\ store[i].jobs[k].id = id
    /\ inbound[m].channel = "cron"
    /\ inbound[m].chat_id = id
    /\ inbound[m].content = store[i].jobs[k].payload.message

\* C6: once the service is started, a job that is enabled and due is fired
\* (its message reaches the inbound stream) unless it stops being due first.
C6_DueJobFires ==
  \A id \in Ids : Due(1, id) ~> (Fired(1, id) \/ ~Due(1, id))

\* C7: a due job with delete_after_run set is gone from the store and from
\* the file after its run, unless it stops being due first.
C7_DeleteAfterRun ==
  \A id \in Ids :
    (Due(1, id) /\ \E k \in 1..Len(store[1].jobs) :
                     store[1].jobs[k].id = id /\ store[1].jobs[k].delete_after_run)
    ~> \/ ~Due(1, id)
       \/ /\ \A k \in 1..Len(store[1].jobs) : store[1].jobs[k].id # id
          /\ \A k \in 1..Len(LoadStore(file).jobs) : LoadStore(file).jobs[k].id # id

\* C8: enable_job on an id in the store changes one job with that id, and of
\* it only enabled and updated_at_ms, and returns it; on an id not in the
\* store it returns nothing and leaves the store and the file as they are.
C8_EnableFrame ==
  [][\A i \in Insts, id \in Ids, en \in BOOLEAN :
       EnableJob(i, id, en) =>
         LET old == store[i].jobs
             new == store'[i].jobs
         IN IF \E k \in 1..Len(old) : old[k].id = id
              THEN /\ store'[i].version = store[i].version
                   /\ Len(new) = Len(old)
                   /\ \E k \in 1..Len(old) :
                        /\ old[k].id = id
                        /\ new[k] = [old[k] EXCEPT !.enabled = en,
                                                   !.updated_at_ms = now]
                        /\ \A m \in 1..Len(old) : m # k => new[m] = old[m]
                        /\ last'[i].retJob = Some(new[k])
              ELSE /\ last'[i].retJob = None
                   /\ store' = store
                   /\ file' = file
                   /\ pc' = pc]_vars

\* enable_job(false) has returned a job of a store that holds two jobs of
\* that id, at a time later than the job's creation.
C8_Witness ==
  /\ last[1].op = "enable_job"
  /\ last[1].retJob # None
  /\ ~last[1].retJob[1].enabled
  /\ last[1].retJob[1].updated_at_ms > last[1].retJob[1].created_at_ms
  /\ Len(store[1].jobs) = 2
  /\ store[1].jobs[1].id = store[1].jobs[2].id

\* C9: remove_job returns true exactly when a job of that id was in the
\* store; afterwards none is, and the other jobs are there unchanged in
\* their order; when it returns false the store is unchanged and nothing is
\* written.
C9_RemoveJob ==
  [][\A i \in Insts, id \in Ids :
       RemoveJob(i, id) =>
         LET old == store[i].jobs
             new == store'[i].jobs
         IN /\ last'[i].retBool <=> \E k \in 1..Len(old) : old[k].id = id
            /\ \A k \in 1..Len(new) : new[k].id # id
            /\ IsRestWithout(new, old, id)
            /\ store'[i].version = store[i].version
            /\ ~last'[i].retBool => store' = store /\ file' = file /\ pc' = pc]_vars

\* remove_job has returned true and left two of three jobs.
C9_Witness ==
  /\ last[1].op = "remove_job"
  /\ last[1].retBool
  /\ Len(store[1].jobs) = 2
  /\ store[1].jobs[1].name = "one"
  /\ store[1].jobs[2].name = "three"

\* C10: the registry holds at most one tool per name; after register(t) the
\* one tool under t's name is t, whatever was there before, and the other
\* names are as they were; after unregister(n) nothing is under n and the
\* other names are as they were; unregistering an absent name changes nothing.
C10_Registry ==
  [][/\ \A e1, e2 \in tools' : e1.key = e2.key => e1 = e2
     /\ \A t \in ToolSet :
          Register(t) =>
            /\ ContainsKey(tools', t.name)
            /\ Get(tools', t.name) = {t}
            /\ \A n \in ToolNames \ {t.name} : Get(tools', n) = Get(tools, n)
     /\ \A n \in ToolNames :
          Unregister(n) =>
            /\ ~ContainsKey(tools', n)
            /\ \A m \in ToolNames \ {n} : Get(tools', m) = Get(tools, m)
            /\ ~ContainsKey(tools, n) => tools' = tools]_vars

\* The second tool of a name has been registered over the first, beside a
\* tool of another name.
C10_Witness ==
  /\ regLast.op = "register"
  /\ regLast.has
  /\ Get(tools, regLast.name) = {[name |-> regLast.name, impl |-> "second"]}
  /\ Cardinality(tools) >= 2

\* C11: execute(name, params) with a name that is not registered returns
\* "Error: Tool '<name>' not found" and invokes no tool; with a registered
\* name it invokes the tool registered under that name, once, with the
\* parameters it was given, and returns that tool's result string unchanged.
C11_Execute ==
  regLast.op = "execute" =>
    IF ~ContainsKey(tools, regLast.name)
      THEN /\ regLast.ret = "Error: Tool '" \o regLast.name \o "' not found"
           /\ regLast.invoked = <<>>
      ELSE /\ Len(regLast.invoked) = 1
           /\ Get(tools, regLast.name) = {regLast.invoked[1].tool}
           /\ regLast.invoked[1].tool.name = regLast.name
           /\ regLast.ret = regLast.invoked[1].out

\* execute has run the second tool registered under a name and returned an
\* error string of the tool's own.
C11_Witness ==
  /\ regLast.op = "execute"
  /\ regLast.has
  /\ Len(regLast.invoked) = 1
  /\ regLast.invoked[1].tool.impl = "second"
  /\ regLast.ret = "Error: boom"

\* str::starts_with
StartsWith(s, prefix) ==
  Len(s) >= Len(prefix) /\ SubSeq(s, 1, Len(prefix)) = prefix

\* C12: whenever a tool's execute ends in a failure (a missing parameter, an
\* I/O failure, a refusal, a timeout, a transport failure) it returns a
\* string that begins with "Error: ", and no call of execute unwinds into
\* its caller.
C12_ErrorPrefix ==
  /\ ~toolLast.res.panic
  /\ toolLast.res.branch \in {"param", "io", "refusal", "timeout", "transport"}
       => StartsWith(toolLast.res.s, "Error: ")

\* C20: whenever the chat call fails (the request cannot be sent, the body
\* cannot be read, the status is not a success, the body is not JSON, or the
\* choices array is missing or empty), chat returns a value and not a
\* failure, with finish_reason "error", a non-empty diagnostic string as
\* content, and no tool calls.
C20_ProviderTotality ==
  LET h == provLast.h
      NoChoices(d) ==
        \/ d.t # "obj"
        \/ "choices" \notin DOMAIN d.o
        \/ d.o["choices"].t # "arr"
        \/ d.o["choices"].a = <<>>
      Failed ==
        /\ h.send # "none"
        /\ \/ h.send # "ok"
           \/ h.read # "ok"
           \/ h.status \notin 200..299
           \/ h.data = None
           \/ NoChoices(h.data[1])
  IN  Failed =>
        /\ provLast.ret.ok
        /\ provLast.ret.resp.finish_reason = "error"
        /\ provLast.ret.resp.content # None
        /\ StartsWith(provLast.ret.resp.content[1], "Error")
        /\ provLast.ret.resp.tool_calls = <<>>

\* A 200 answer whose JSON body carries an error object and no choices.
C20_Witness ==
  /\ provLast.h.send = "ok" /\ provLast.h.status = 200
  /\ provLast.h.data # None
  /\ GetAs(provLast.h.data[1], "error", "obj") # None
  /\ provLast.ret.ok
  /\ provLast.ret.resp.content = Some("Error: No choices in LLM response")
  /\ provLast.ret.resp.finish_reason = "error"

\* C13: one invocation of process_direct issues at most max_tool_iterations
\* provider calls, whatever the provider returns.
C13_IterationBound == turn.calls <= MaxToolIterations

\* An invocation whose every provider call asked for a tool, ended by the
\* fixed message after max_tool_iterations calls.
C13_Witness ==
  /\ ~turn.active
  /\ turn.ret = Some(MaxIterationsMessage)
  /\ turn.calls = MaxToolIterations

\* C14: in every per-session history each tool record has exactly one
\* preceding assistant record whose tool_calls contains the same
\* tool_call_id, and no other tool record references that id.
C14_Pairing ==
  \A s \in Sessions :
    LET hist == history[s]
        Asks(j, id) ==
          /\ hist[j].role = "assistant"
          /\ "tool_calls" \in DOMAIN hist[j]
          /\ \E n \in 1..Len(hist[j].tool_calls) : hist[j].tool_calls[n].id = id
    IN  \A i \in 1..Len(hist) :
          hist[i].role = "tool" =>
            /\ Cardinality({j \in 1..(i - 1) : Asks(j, hist[i].tool_call_id)}) = 1
            /\ \A k \in 1..Len(hist) :
                  (k # i /\ hist[k].role = "tool")
                    => hist[k].tool_call_id # hist[i].tool_call_id

\* C15: a bridge frame of type "message" produces a bus event exactly when
\* allow_from is empty, or the raw sender is in allow_from, or the part of
\* the sender before the first '@' is in allow_from; otherwise it produces
\* no bus event.
C15_AllowList ==
  [][ LET data == waLast'.arg.data[1]
          sender == UnwrapOr(GetAs(data, "sender", "str"), "")
          allow == waConfig[1].allow_from
          In(x) == \E i \in 1..Len(allow) : allow[i] = x
      IN  ( /\ waLast'.flip # waLast.flip
            /\ waLast'.op = "read"
            /\ waLast'.arg.kind = "text"
            /\ waLast'.arg.data # None
            /\ GetAs(data, "type", "str") = Some("message") )
          => IF allow = <<>> \/ In(sender) \/ In(ChatIdOf(sender))
               THEN /\ Len(inbound') = Len(inbound) + 1
                    /\ SubSeq(inbound', 1, Len(inbound)) = inbound
                    /\ inbound'[Len(inbound')].channel = "whatsapp"
                    /\ inbound'[Len(inbound')].sender_id = sender
               ELSE inbound' = inbound ]_vars

\* With allow_from = ["123"], a message of 999@s.whatsapp.net was read and
\* nothing has reached the bus.
C15_Witness ==
  /\ waConfig = Some([allow_from |-> <<"123">>])
  /\ waLast.op = "read"
  /\ waLast.arg.data # None
  /\ GetAs(waLast.arg.data[1], "type", "str") = Some("message")
  /\ GetAs(waLast.arg.data[1], "sender", "str") = Some("999@s.whatsapp.net")
  /\ tasks[1].pc = "reading"
  /\ inbound = <<>>

C17_ReconnectCycle ==
  /\ [][ \A t \in 1..Len(tasks) :
           /\ (tasks[t].pc = "cleanup" /\ tasks'[t].pc # "cleanup")
                => /\ wsTx' = None
                   /\ conns'[tasks[t].conn].writer \in {"ended", "aborted"}
                   /\ tasks'[t].pc = "backoff"
           /\ (tasks[t].pc = "reading" /\ tasks'[t].pc # "reading")
                => tasks'[t].pc = "cleanup"
           /\ (tasks[t].pc # "connecting" /\ tasks'[t].pc = "connecting")
                => (tasks[t].pc = "check" /\ waRunning)
           /\ (tasks[t].pc = "check" /\ tasks'[t].pc # "check" /\ ~waRunning)
                => tasks'[t].pc = "done"
           /\ tasks[t].pc = "done" => tasks'[t].pc = "done" ]_vars
  /\ \A t \in 1..MaxWaInputs :
       (t <= Len(tasks) /\ tasks[t].pc \in {"cleanup", "backoff"} /\ waRunning)
         ~> ((t <= Len(tasks) /\ tasks[t].pc = "connecting") \/ ~waRunning)

\* A task on its second connect attempt, after a connection that was
\* established and then closed, with the handle cleared and the first
\* writer torn down.
C17_Witness ==
  /\ waRunning
  /\ Len(tasks) = 1
  /\ tasks[1].pc = "connecting"
  /\ tasks[1].conn = 1
  /\ conns[1].writer = "aborted"
  /\ wsTx = None
  /\ waLast.op = "read"
  /\ waLast.arg.kind = "close"

\* C18: only start and stop change the running flag (start sets it, stop
\* clears it), so is_running() stays true from start until stop is called,
\* through connection failures, closures and reconnect attempts.
C18_IsRunning ==
  [][ IsRunning' # IsRunning
      => /\ waLast'.flip # waLast.flip
         /\ \/ waLast'.op = "start" /\ IsRunning'
            \/ waLast'.op = "stop" /\ ~IsRunning' ]_vars

\* Still running after a failed connect attempt, the back-off and a second
\* attempt that established the connection.
C18_Witness ==
  /\ IsRunning
  /\ waLast.op = "start"
  /\ waUsed = 3
  /\ Len(tasks) = 1
  /\ Len(conns) = 1
  /\ tasks[1].pc = "reading"
  /\ wsTx = Some(1)

\* C19: every stop succeeds and leaves the running flag false and the send
\* handle absent; a stop made in that state changes nothing.
C19_StopIdempotent ==
  [][ (waLast'.flip # waLast.flip /\ waLast'.op = "stop")
      => /\ waLast'.ret = "Ok"
         /\ ~waRunning'
         /\ wsTx' = None
         /\ UNCHANGED <<waConfig, tasks, conns, inbound>>
         /\ (~waRunning /\ wsTx = None) => UNCHANGED <<waRunning, wsTx>> ]_vars

\* Two stops in a row after a connection was established.
C19_Witness ==
  /\ waLast.op = "stop"
  /\ waLast.prev = "stop"
  /\ Len(conns) = 1
  /\ ~waRunning
  /\ wsTx = None

\* C21: edit_file writes the file only when old_text occurs exactly once in
\* it, and then the file holds the content with that occurrence replaced by
\* new_text; when old_text occurs two or more times the call returns a
\* warning naming the number of occurrences and the file is unchanged; when
\* it does not occur the call returns an error and the file is unchanged.
\* An occurrence is a position of the content at which old_text begins.
C21_EditUniqueness ==
  LET c == toolLast.call
      content == c.env.content
      old == ParamStr(c.params, "old_text")[1]
      new == ParamStr(c.params, "new_text")[1]
      At(i) == SubSeq(content, i, i + Len(old) - 1) = old
      Places == {i \in 1..(Len(content) - Len(old) + 1) : At(i)}
      n == Cardinality(Places)
      first == CHOOSE i \in Places : \A j \in Places : i <= j
      Counted ==
        /\ c.tool = "edit_file"
        /\ toolLast.res.branch \in {"ok", "refusal", "warning"}
  IN  Counted =>
        /\ toolLast.res.branch = "ok" <=> n = 1
        /\ n = 1 => toolLast.disk = SubSeq(content, 1, first - 1) \o new
                                     \o SubSeq(content, first + Len(old), Len(content))
        /\ n >= 2 =>
              /\ toolLast.res.s = "Warning: old_text appears " \o ToString(n)
                     \o " times. Please provide more context to make it unique."
              /\ toolLast.disk = content
        /\ n = 0 =>
              /\ StartsWith(toolLast.res.s, "Error: ")
              /\ toolLast.disk = content

\* C22: starting from no file for today, after any sequence of append_today
\* calls on the same day, read_today() is the header "# <today>" and a
\* blank line followed by every appended content, in call order, each
\* later one separated from the previous by a newline: nothing appended
\* earlier is lost by a later append.  Stated here for the runs in which
\* every write of the file succeeded and read_today could read it.
C22_MemoryAppend ==
  LET RECURSIVE Joined(_)
      Joined(log) ==
        IF Len(log) = 1 THEN log[1].content
        ELSE Joined(SubSeq(log, 1, Len(log) - 1)) \o "\n" \o log[Len(log)].content
      AllWritten == \A i \in 1..Len(memLog) : memLog[i].written
  IN  (memLast.op = "read_today" /\ memLast.read_ok /\ memLog # <<>> /\ AllWritten) =>
        memLast.ret = "# " \o TodayDate \o "\n\n" \o Joined(memLog)

\* C23: exec runs a command only if it matches no deny pattern, matches an
\* allow pattern when the allow-list is nonempty and, in workspace-
\* restriction mode, contains neither "../" nor "..\" and mentions no
\* absolute path outside the working directory; a refused command starts
\* no process and returns a string containing "blocked by safety guard";
\* a deny match refuses the command even when an allow pattern matches.
C23_ShellGuard ==
  LET c == toolLast.call
      tool == c.env.tool
      cmd == c.env.cmd
      s == toolLast.res.s
      Blocked == \E i \in 1..Len(s) : SubSeq(s, i, i + 22) = "blocked by safety guard"
      Permitted ==
        /\ ~cmd.deny
        /\ tool.allow_patterns => cmd.allow
        /\ tool.restrict_to_workspace =>
              /\ ~cmd.traversal
              /\ \A p \in cmd.paths : ~p.outside
      Guarded == c.tool = "exec" /\ toolLast.res.branch # "param"
  IN  Guarded =>
        /\ toolLast.res.branch # "refusal" => Permitted
        /\ toolLast.res.branch = "refusal" => Blocked
        /\ cmd.deny => toolLast.res.branch = "refusal"

\* C24: execute of the message tool and of the spawn tool never holds the
\* callback mutex or a context mutex while the callback is awaited, and so
\* every call a task is in returns, the calls made from inside the awaited
\* callback (set_send_callback / set_callback, set_context, execute on the
\* same tool) and the execute awaiting it included.
C24_LockingDiscipline ==
  /\ [](\A t \in {1, 2} : \A i \in 1..Len(mtStack[t]) :
          mtStack[t][i].pc = "await" =>
            \A m \in {"callback", "channel", "chat_id"} :
              mtLocks[mtStack[t][i].tool][m] # t)
  /\ \A t \in {1, 2} : (mtStack[t] # <<>>) ~> (mtStack[t] = <<>>)

\* An execute of the message tool has returned after sending, and a call
\* made from inside its callback had returned before.
C24_Witness ==
  /\ mtLast.tool = "message"
  /\ mtLast.op = "execute"
  /\ mtLast.nested = 1
  /\ mtLast.ret = "Message sent to cli:direct"

\* C29: when execute of the message tool is called without explicit channel
\* and chat_id, whatever set_context calls run concurrently, the (channel,
\* chat_id) pair it sends to is a pair installed together, by one
\* set_context call or by the constructor.
C29_DefaultTargetNotTorn ==
  (/\ mtLast.tool = "message"
   /\ mtLast.op = "execute"
   /\ mtLast.defaults
   /\ StartsWith(mtLast.ret, "Message sent to "))
  => <<mtLast.channel, mtLast.chat_id>> \in mtInstalled["message"]

\* C25: only the writer task of a connection writes to its socket: what the
\* socket of a connection has been sent grows only by a step of that
\* connection's writer, which takes the oldest frame of the connection's
\* queue; send writes to no socket, an accepted send puts its frame at the
\* end of one queue, and nothing else adds to a queue or reorders it. So
\* the frames accepted by send on one connection are written in the order
\* they were enqueued.
C25_SingleWriter ==
  [][ LET sent == waLast'.flip # waLast.flip /\ waLast'.op = "send"
          frame == [type |-> "send", to |-> waLast'.arg.chat_id,
                    text |-> waLast'.arg.content]
      IN  /\ \A c \in 1..Len(conns) :
                /\ conns'[c].written # conns[c].written =>
                      /\ ~sent
                      /\ conns[c].writer = "recv"
                      /\ conns[c].queue # <<>>
                      /\ conns'[c].written = Append(conns[c].written, Head(conns[c].queue))
                      /\ conns'[c].queue = Tail(conns[c].queue)
                      /\ \A d \in 1..Len(conns) : d # c => conns'[d] = conns[d]
                /\ conns'[c].queue # conns[c].queue =>
                      \/ sent /\ conns'[c].queue = Append(conns[c].queue, frame)
                      \/ ~sent /\ conns[c].writer = "recv"
                                /\ conns'[c].queue = Tail(conns[c].queue)
          /\ (sent /\ waLast'.ret = "Ok") =>
                /\ wsTx # None
                /\ conns'[wsTx[1]].queue = Append(conns[wsTx[1]].queue, frame)
          /\ Len(conns') > Len(conns) =>
                /\ conns'[Len(conns')].written = <<>>
                /\ conns'[Len(conns')].queue = <<>> ]_vars

\* Two frames accepted by send on one connection, both written by its
\* writer, in the order of the two send calls.
C25_Witness ==
  /\ Len(conns) = 1
  /\ conns[1].queue = <<>>
  /\ conns[1].written = <<[type |-> "send", to |-> "123", text |-> "two"],
                          [type |-> "send", to |-> "123", text |-> "one"]>>

\* C26: from the return of stop until the next start (the running flag is
\* false all that time), whatever the connection tasks do, the send handle
\* is absent, and a send made then fails with the not-connected error.
C26_StaysDown ==
  ~waRunning =>
    /\ wsTx = None
    /\ waLast.op = "send" => waLast.ret = "Err: WhatsApp bridge not connected"

\* C27: once stop has cleared the running flag, a connection task that is
\* sleeping in the back-off, or reading from an established socket on
\* which the bridge sends nothing, eventually leaves its loop (unless the
\* adapter is started again).  The task in a connect attempt comes to one
\* of these two states when connect_async returns.
C27_TaskExits ==
  \A t \in 1..MaxWaInputs :
    (t <= Len(tasks) /\ ~waRunning /\ tasks[t].pc \in {"sleeping", "reading"})
      ~> ((t <= Len(tasks) /\ tasks[t].pc = "done") \/ waRunning)

\* C28: the bus receives the adapter's InboundMessages in the order the
\* accepted "message" frames were read from the socket: the bus changes
\* only when a task in its read loop reads a text frame holding a JSON
\* value of type "message", and then exactly that frame's message is put
\* behind everything pushed before; a frame that is not a text frame, not
\* JSON, or not of type "message" changes nothing on the bus.
C28_InboundOrder ==
  [][ LET read == waLast'.flip # waLast.flip /\ waLast'.op = "read"
          frame == waLast'.arg
          message == /\ frame.kind = "text"
                     /\ frame.data # None
                     /\ GetAs(frame.data[1], "type", "str") = Some("message")
          sender == UnwrapOr(GetAs(frame.data[1], "sender", "str"), "")
      IN  /\ inbound' # inbound =>
                /\ read /\ message
                /\ \E t \in 1..Len(tasks) : tasks[t].pc = "reading"
                /\ Len(inbound') = Len(inbound) + 1
                /\ \A i \in 1..Len(inbound) : inbound'[i] = inbound[i]
                /\ inbound'[Len(inbound')].sender_id = sender
                /\ inbound'[Len(inbound')].chat_id = ChatIdOf(sender)
          /\ (read /\ ~message) => inbound' = inbound ]_vars

\* Two accepted messages read one after the other on one connection, on
\* the bus in that order.
C28_Witness ==
  /\ Len(conns) = 1
  /\ Len(inbound) = 2
  /\ inbound[1].sender_id = "777@g.us"
  /\ inbound[2].sender_id = "123@s.whatsapp.net"
  /\ inbound[2].content = "[Voice Message: Transcription not available for WhatsApp yet]"
  /\ waLast.op = "read"
  /\ waLast.arg.data # None
  /\ GetAs(waLast.arg.data[1], "content", "str") = Some("[Voice Message]")

\* C30: when two instances constructed over the same store path have each
\* added a job (with different ids) and both writes went through, the file
\* holds both added jobs.
C30_NoLostUpdate ==
  (/\ \A i \in Insts : Written(i) /\ last[i].op = "add_job" /\ last[i].retJob # None
   /\ last[1].retJob[1].id # last[2].retJob[1].id)
  => /\ file.st = "json"
     /\ ValidStoreJson(file.doc)
     /\ \A i \in Insts :
          \E k \in 1..Len(FromJsonStore(file.doc).jobs) :
            FromJsonStore(file.doc).jobs[k].id = last[i].retJob[1].id
====
